---- MODULE Spec2Model ----
(***************************************************************************)
(* A model of the GO Transit reliability router: the timetable-aware       *)
(* routing engine (routing/engine.py), the graph builder and its cache     *)
(* (graph/builder.py), the reliability records (reliability/historical.py, *)
(* ingestion/seed_reliability.py), the live-state store and observation    *)
(* recorder (ingestion/gtfs_realtime.py) and the scheduled jobs and result *)
(* cache of the API layer (api/main.py).                                   *)
(*                                                                         *)
(* Times of day are the GTFS strings "HH:MM:SS", modelled as the triple    *)
(* <<HH, MM, SS>> (a malformed string is the empty tuple); service dates   *)
(* are the YYYYMMDD strings.                                               *)
(***************************************************************************)
EXTENDS Integers, Sequences, FiniteSets, TLC

(***************************************************************************)
(* Configuration (config.py) and fixed constants of the code.              *)
(***************************************************************************)
MAX_TRANSFERS == 2
MIN_TRANSFER_MINUTES == 10
MAX_WALK_METRES == 500
\* WALK_SPEED_KPH = 4.5, kept as tenths of a km/h to stay in the integers.
WALK_SPEED_KPH_X10 == 45
\* 23:59:59, the last second _fill_later_departures will schedule from.
MAX_SECONDS == 86399
\* MAX_CANDIDATES = max_routes * 15
CANDIDATE_FACTOR == 15
\* seed_from_static(session, window_days=14)
DEFAULT_WINDOW_DAYS == 14
MAX_ROUTES == 5
\* The metres the walk-edge index takes for one degree of latitude (111_320).
METRES_PER_DEGREE == 111320
\* R of _haversine_metres.
EARTH_RADIUS == 6371000
\* _ROUTES_CACHE_TTL = timedelta(hours=1), in seconds
ROUTES_CACHE_TTL == 3600

(***************************************************************************)
(* Bounds of the model.                                                    *)
(***************************************************************************)
\* find_routes is called with max_routes in 0..MaxK.
MaxK == 2
\* A timetable holds at most MaxTrips trips of the pool.
MaxTrips == 3
\* the runs of the poll job, the graph builds and the commit that may fail
MaxRtRuns == 2
MaxBuilds == 2
MaxFailAt == 2

\* Python's None where a trip_id is expected, and where a number of seconds is.
None == "None"
NoneSec == -1

Max(a, b) == IF a >= b THEN a ELSE b
Min(a, b) == IF a <= b THEN a ELSE b

(***************************************************************************)
(* The universe the inputs are drawn from.  stop_lat and stop_lon are kept  *)
(* in microdegrees north and east of 43.6 N, 79.4 W.  The stops A to E of  *)
(* the timetables lie on one meridian, 5 km, 10 km, 10.4 km and 20 km      *)
(* north of A: C and D are 400 m apart, every other pair is farther apart  *)
(* than MAX_WALK_METRES.                                                   *)
(***************************************************************************)
StopIds == {"A", "B", "C", "D", "E"}
\* Stops around one crossing W0: N1, N2, N3 to its north at about 489 m,
\* 499.7 m and 511 m; E1, E2, E3 to its east at about 491 m, 499.7 m and
\* 507 m.
WalkStopIds == {"W0", "N1", "N2", "N3", "E1", "E2", "E3"}
StopLat == [s \in StopIds \cup WalkStopIds |->
              CASE s = "B" -> 44966
                [] s = "C" -> 89932
                [] s = "D" -> 93530
                [] s = "E" -> 179864
                [] s = "N1" -> 4400
                [] s = "N2" -> 4494
                [] s = "N3" -> 4600
                [] OTHER   -> 0]
StopLon == [s \in StopIds \cup WalkStopIds |->
              CASE s = "E1" -> 6100
                [] s = "E2" -> 6206
                [] s = "E3" -> 6300
                [] OTHER   -> 0]
RouteIds == {"R1", "R2"}
\* The two orders in which a set of route ids (a Python set of strings) can be
\* iterated.
RouteOrders == {<<"R1", "R2">>, <<"R2", "R1">>}
Day1 == "20260209"
Day2 == "20260210"

ST(stop, seq, arr, dep) ==
    [stop_id |-> stop, stop_sequence |-> seq, arrival_time |-> arr, departure_time |-> dep]

\* The trips a timetable is made of; st is ordered by stop_sequence.
TripPool ==
    { [trip_id |-> "T1", route_id |-> "R1", service_id |-> Day1,
       st |-> << ST("A", 1, <<8, 0, 0>>, <<8, 0, 0>>),
                 ST("B", 2, <<8, 20, 0>>, <<8, 20, 0>>),
                 ST("C", 3, <<8, 40, 0>>, <<8, 40, 0>>) >>],
      [trip_id |-> "T2", route_id |-> "R1", service_id |-> Day1,
       st |-> << ST("A", 1, <<9, 0, 0>>, <<9, 0, 0>>),
                 ST("B", 2, <<9, 20, 0>>, <<9, 20, 0>>),
                 ST("C", 3, <<9, 40, 0>>, <<9, 40, 0>>) >>],
      \* an express that skips B
      [trip_id |-> "T3", route_id |-> "R1", service_id |-> Day1,
       st |-> << ST("A", 1, <<8, 30, 0>>, <<8, 30, 0>>),
                 ST("C", 2, <<8, 55, 0>>, <<8, 55, 0>>) >>],
      \* leaves B exactly MIN_TRANSFER_MINUTES after T1 arrives there
      [trip_id |-> "T4", route_id |-> "R2", service_id |-> Day1,
       st |-> << ST("B", 1, <<8, 30, 0>>, <<8, 30, 0>>),
                 ST("D", 2, <<8, 50, 0>>, <<8, 50, 0>>),
                 ST("E", 3, <<9, 5, 0>>, <<9, 5, 0>>) >>],
      \* leaves B five minutes after T1 arrives there
      [trip_id |-> "T5", route_id |-> "R2", service_id |-> Day1,
       st |-> << ST("B", 1, <<8, 25, 0>>, <<8, 25, 0>>),
                 ST("C", 2, <<8, 45, 0>>, <<8, 45, 0>>) >>],
      \* runs on another day
      [trip_id |-> "T6", route_id |-> "R1", service_id |-> Day2,
       st |-> << ST("A", 1, <<8, 0, 0>>, <<8, 0, 0>>),
                 ST("C", 2, <<8, 20, 0>>, <<8, 20, 0>>) >>] }

\* A timetable of four one-hop trips on alternating routes: riding them all
\* takes three transfers.
ChainTrips ==
    { [trip_id |-> "X1", route_id |-> "R1", service_id |-> Day1,
       st |-> << ST("A", 1, <<8, 5, 0>>, <<8, 5, 0>>), ST("B", 2, <<8, 10, 0>>, <<8, 10, 0>>) >>],
      [trip_id |-> "X2", route_id |-> "R2", service_id |-> Day1,
       st |-> << ST("B", 1, <<8, 20, 0>>, <<8, 20, 0>>), ST("C", 2, <<8, 25, 0>>, <<8, 25, 0>>) >>],
      [trip_id |-> "X3", route_id |-> "R1", service_id |-> Day1,
       st |-> << ST("C", 1, <<8, 35, 0>>, <<8, 35, 0>>), ST("E", 2, <<8, 40, 0>>, <<8, 40, 0>>) >>],
      [trip_id |-> "X4", route_id |-> "R2", service_id |-> Day1,
       st |-> << ST("E", 1, <<8, 50, 0>>, <<8, 50, 0>>), ST("D", 2, <<8, 55, 0>>, <<8, 55, 0>>) >>] }

\* A trip of R1 whose arrival at C is written earlier than its departure
\* from A (a run past midnight given without hours beyond 24).
MidnightTrip ==
    [trip_id |-> "T7", route_id |-> "R1", service_id |-> Day1,
     st |-> << ST("A", 1, <<23, 50, 0>>, <<23, 50, 0>>),
               ST("C", 2, <<0, 10, 0>>, <<0, 10, 0>>) >>]

\* A trip of R1 that runs a loop: it calls at A twice.
LoopTrip ==
    [trip_id |-> "L1", route_id |-> "R1", service_id |-> Day1,
     st |-> << ST("A", 1, <<8, 0, 0>>, <<8, 0, 0>>),
               ST("B", 2, <<8, 10, 0>>, <<8, 10, 0>>),
               ST("C", 3, <<8, 20, 0>>, <<8, 20, 0>>),
               ST("A", 4, <<8, 30, 0>>, <<8, 30, 0>>) >>]

\* A trip of R1 that calls at C before B, leaving A before T1 does.
OutOfOrderTrip ==
    [trip_id |-> "O1", route_id |-> "R1", service_id |-> Day1,
     st |-> << ST("A", 1, <<7, 58, 0>>, <<7, 58, 0>>),
               ST("C", 2, <<8, 48, 0>>, <<8, 48, 0>>),
               ST("B", 3, <<8, 58, 0>>, <<8, 58, 0>>) >>]

\* The last trip of the service day: it leaves A at 23:59:59.
LateTrip ==
    [trip_id |-> "N9", route_id |-> "R1", service_id |-> Day1,
     st |-> << ST("A", 1, <<23, 59, 59>>, <<23, 59, 59>>),
               ST("B", 2, <<24, 20, 0>>, <<24, 20, 0>>),
               ST("C", 3, <<24, 40, 0>>, <<24, 40, 0>>) >>]

\* A trip of R2 that is as fast from A to B as the trips of R1 and ends at B.
TieTrip ==
    [trip_id |-> "Y1", route_id |-> "R2", service_id |-> Day1,
     st |-> << ST("A", 1, <<8, 0, 0>>, <<8, 0, 0>>),
               ST("B", 2, <<8, 20, 0>>, <<8, 20, 0>>) >>]

\* A trip of R2 that leaves D late enough to be reached on foot from C
\* after T1.
AfterWalkTrip ==
    [trip_id |-> "Z1", route_id |-> "R2", service_id |-> Day1,
     st |-> << ST("D", 1, <<9, 0, 0>>, <<9, 0, 0>>),
               ST("E", 2, <<9, 15, 0>>, <<9, 15, 0>>) >>]

TripIds == {t.trip_id : t \in TripPool \cup ChainTrips}
\* trip ids in ascending string order (ORDER BY trip_id)
TripOrder ==
    <<"L1", "N9", "O1", "T1", "T2", "T3", "T4", "T5", "T6", "T7", "X1", "X2", "X3", "X4", "Y1", "Z1">>
TripRank(id) == CHOOSE i \in 1..Len(TripOrder) : TripOrder[i] = id

(***************************************************************************)
(* Time helpers.                                                           *)
(***************************************************************************)
\* _hms_to_seconds: HH:MM:SS -> seconds past midnight, 0 on a parse failure.
HmsToSeconds(hms) ==
    IF Len(hms) = 3 THEN hms[1] * 3600 + hms[2] * 60 + hms[3] ELSE 0

\* Comparison of two HH:MM:SS strings as strings (ORDER BY departure_time):
\* field by field, zero-padded fields comparing like their numbers.
HmsStrLess(x, y) ==
    IF Len(x) # 3 \/ Len(y) # 3 THEN Len(x) < Len(y)
    ELSE \/ x[1] < y[1]
         \/ x[1] = y[1] /\ x[2] < y[2]
         \/ x[1] = y[1] /\ x[2] = y[2] /\ x[3] < y[3]

\* datetime(..., h, m, s) built from seconds past midnight, as the triple.
SecondsToHms(n) == << n \div 3600, (n % 3600) \div 60, n % 60 >>

(***************************************************************************)
(* The graph builder (graph/builder.py).  A graph is a record of its node  *)
(* set and its edge set; every edge carries all attributes, those of the   *)
(* other kind left at their neutral value.                                 *)
(***************************************************************************)
TripEdge(u, v, route, trip, travel) ==
    [kind |-> "trip", u |-> u, v |-> v, route_id |-> route, trip_id |-> trip,
     travel_seconds |-> travel, distance_m |-> 0, walk_seconds |-> 0, weight |-> travel]

WalkEdge(u, v, dist, secs) ==
    [kind |-> "walk", u |-> u, v |-> v, route_id |-> "", trip_id |-> "",
     travel_seconds |-> 0, distance_m |-> dist, walk_seconds |-> secs, weight |-> secs]

\* nx.MultiDiGraph(): a new graph object; id stands for the object's identity.
NewGraph(id) == [id |-> id, nodes |-> {}, edges |-> {}]
\* _graph = None
NoGraph == NewGraph(0)

\* _add_stop_nodes
AddStopNodes(G, stops) == [G EXCEPT !.nodes = @ \cup stops]

\* _flush over every trip: one candidate per consecutive stop pair.
TripPairCandidates(trips) ==
    UNION { { [u |-> t.st[i].stop_id, v |-> t.st[i + 1].stop_id,
               route_id |-> t.route_id, trip_id |-> t.trip_id,
               travel |-> Max(0, HmsToSeconds(t.st[i + 1].arrival_time)
                                  - HmsToSeconds(t.st[i].departure_time))]
              : i \in 1..(Len(t.st) - 1) } : t \in trips }

\* A variant of the update rule that never replaces the candidate kept first.
FirstCandidate(cands) ==
    CHOOSE c \in cands : \A d \in cands : TripRank(c.trip_id) <= TripRank(d.trip_id)

\* The update rule of _flush: a later candidate replaces the kept one only
\* when it is strictly faster, so of the fastest the first in trip_id order wins.
BestCandidate(cands) ==
    CHOOSE c \in cands :
        \A d \in cands :
            \/ c.travel < d.travel
            \/ c.travel = d.travel /\ TripRank(c.trip_id) <= TripRank(d.trip_id)

\* _add_trip_edges: one edge per (from_stop, to_stop, route_id).
AddTripEdges(G, trips) ==
    LET cands == TripPairCandidates(trips)
        keys  == { <<c.u, c.v, c.route_id>> : c \in cands }
        best(k) == BestCandidate({ c \in cands : <<c.u, c.v, c.route_id>> = k })
        new   == { TripEdge(k[1], k[2], k[3], best(k).trip_id, best(k).travel) : k \in keys }
    IN [G EXCEPT !.nodes = @ \cup { e.u : e \in new } \cup { e.v : e \in new },
                 !.edges = @ \cup new]

\* x * num / den, rounded down, without leaving 32 bits.
Scale(x, num, den) == (x \div den) * num + ((x % den) * num) \div den

\* math.cos(math.radians(lat)) in millionths, for the latitudes of the model
\* (cos 43.6 = 0.724172, falling by about 1/83 millionth per microdegree).
CosMicro(lat) == 724172 - (lat \div 83)

\* The metres of one degree of a great circle of radius R: R * pi / 180.
MetresPerDegreeOnSphere == ((EARTH_RADIUS \div 1000) * 314159) \div 18000

\* _haversine_metres, in millimetres.  At the distances of the model the
\* great circle is the hypotenuse of R * dphi and R * cos(phi) * dlambda;
\* it is taken to the metre when the two stops share neither coordinate.
HaversineMm(a, b) ==
    LET dlat  == IF StopLat[a] >= StopLat[b] THEN StopLat[a] - StopLat[b] ELSE StopLat[b] - StopLat[a]
        dlon  == IF StopLon[a] >= StopLon[b] THEN StopLon[a] - StopLon[b] ELSE StopLon[b] - StopLon[a]
        cos   == CosMicro((StopLat[a] + StopLat[b]) \div 2)
        north == Scale(dlat, MetresPerDegreeOnSphere, 1000)
        east  == Scale(Scale(dlon, cos \div 100, 10000), MetresPerDegreeOnSphere, 1000)
        n     == north \div 1000
        e     == east \div 1000
        hyp   == CHOOSE r \in Max(n, e)..(n + e) : r * r <= n * n + e * e /\ n * n + e * e < (r + 1) * (r + 1)
    IN IF dlon = 0 THEN north ELSE IF dlat = 0 THEN east ELSE hyp * 1000

\* distance_m of a walk edge, in whole metres.
DistanceMetres(a, b) == HaversineMm(a, b) \div 1000

\* int(dist / walk_speed_ms) with walk_speed_ms = WALK_SPEED_KPH * 1000 / 3600
WalkSeconds(dist) == (dist * 36) \div WALK_SPEED_KPH_X10

\* sorted(stops, key=lambda s: s.stop_lat)
RECURSIVE ByLat(_)
ByLat(stops) ==
    IF stops = {} THEN << >>
    ELSE LET first == CHOOSE s \in stops : \A t \in stops : StopLat[s] <= StopLat[t]
         IN << first >> \o ByLat(stops \ { first })

\* bisect.bisect_left(values, x) and bisect.bisect_right(values, x) on a
\* sorted list: the number of values below x, and of values not above x.
BisectLeft(values, x) == Cardinality({ i \in 1..Len(values) : values[i] < x })
BisectRight(values, x) == Cardinality({ i \in 1..Len(values) : values[i] <= x })

\* The walk edges of _add_walk_edges_bisect as (a, b) pairs.  delta_lat and
\* delta_lon are in microdegrees, rounded down: the coordinates are whole
\* microdegrees, so no comparison changes.
BisectWalkPairs(stops) ==
    LET delta_lat  == (MAX_WALK_METRES * 1000000) \div METRES_PER_DEGREE
        by_lat     == ByLat(stops)
        lat_values == [i \in 1..Len(by_lat) |-> StopLat[by_lat[i]]]
        delta_lon(a) == (MAX_WALK_METRES * 1000000)
                           \div ((METRES_PER_DEGREE * (CosMicro(StopLat[a]) \div 100)) \div 10000)
        lo(a) == BisectLeft(lat_values, StopLat[a] - delta_lat)
        hi(a) == BisectRight(lat_values, StopLat[a] + delta_lat)
        absdlon(a, b) == IF StopLon[b] >= StopLon[a] THEN StopLon[b] - StopLon[a] ELSE StopLon[a] - StopLon[b]
    IN { p \in stops \X stops :
           /\ \E i \in (lo(p[1]) + 1)..hi(p[1]) : by_lat[i] = p[2]
           /\ p[1] # p[2]
           /\ ~(absdlon(p[1], p[2]) > delta_lon(p[1]))
           /\ HaversineMm(p[1], p[2]) <= MAX_WALK_METRES * 1000 }

\* The brute-force reference: every ordered pair of distinct stops within
\* MAX_WALK_METRES.
BruteForceWalkPairs(stops) ==
    { p \in stops \X stops :
        p[1] # p[2] /\ HaversineMm(p[1], p[2]) <= MAX_WALK_METRES * 1000 }

\* _add_walk_edges (SQLite): the edges of _add_walk_edges_bisect.
AddWalkEdges(G, stops) ==
    [G EXCEPT !.edges = @ \cup
        { WalkEdge(p[1], p[2], DistanceMetres(p[1], p[2]), WalkSeconds(DistanceMetres(p[1], p[2])))
            : p \in BisectWalkPairs(stops) }]

\* build_graph, up to the assignment of the cache.
BuiltGraph(db, id) ==
    AddWalkEdges(AddTripEdges(AddStopNodes(NewGraph(id), db.stops), db.trips), db.stops)

(***************************************************************************)
(* The routing engine (routing/engine.py).                                 *)
(***************************************************************************)
\* G.get_edge_data(u, v): the parallel edges from u to v.
EdgeData(G, u, v) == { e \in G.edges : e.u = u /\ e.v = v }

MinWeight(edges) == CHOOSE w \in { e.weight : e \in edges } : \A e \in edges : w <= e.weight

\* The projection H of find_routes: the minimum weight per (u, v).
HWeight(G, u, v) == MinWeight(EdgeData(G, u, v))
HHasEdge(G, u, v) == EdgeData(G, u, v) # {}

Last(seq) == seq[Len(seq)]
SeqToSet(seq) == { seq[i] : i \in 1..Len(seq) }

\* The simple paths of H that extend `path` to `target`.
RECURSIVE SimplePathsFrom(_, _, _)
SimplePathsFrom(G, path, target) ==
    IF Last(path) = target THEN { path }
    ELSE UNION { SimplePathsFrom(G, Append(path, n), target)
                   : n \in { m \in G.nodes : m \notin SeqToSet(path) /\ HHasEdge(G, Last(path), m) } }

\* All paths nx.shortest_simple_paths(H, source, target) can yield.
SimplePaths(G, source, target) == SimplePathsFrom(G, << source >>, target)

RECURSIVE PathWeightFrom(_, _, _)
PathWeightFrom(G, path, i) ==
    IF i >= Len(path) THEN 0
    ELSE HWeight(G, path[i], path[i + 1]) + PathWeightFrom(G, path, i + 1)
PathWeight(G, path) == PathWeightFrom(G, path, 1)

\* The paths Yen's algorithm may yield next: the lightest not yet yielded.
NextPaths(G, remaining) ==
    { p \in remaining : \A q \in remaining : PathWeight(G, p) <= PathWeight(G, q) }

\* min(edges.values(), key=weight): trip edges were inserted before walk
\* edges, and min keeps the first of equal weight.
BestEdge(edges) ==
    LET w == MinWeight(edges)
        trips == { e \in edges : e.kind = "trip" /\ e.weight = w }
    IN IF trips # {} THEN CHOOSE e \in trips : TRUE
       ELSE CHOOSE e \in edges : e.weight = w

HasRouteEdge(G, a, b, route_id) ==
    \E e \in EdgeData(G, a, b) : e.kind = "trip" /\ e.route_id = route_id

\* The inner loop of _pick_longest_route: consecutive pairs from `j` on that
\* `route_id` serves.
RECURSIVE RunLength(_, _, _, _)
RunLength(G, node_path, j, route_id) ==
    IF j >= Len(node_path) THEN 0
    ELSE IF ~HasRouteEdge(G, node_path[j], node_path[j + 1], route_id) THEN 0
    ELSE 1 + RunLength(G, node_path, j + 1, route_id)

\* A variant that keeps the candidate iterated first.
PickFirstRoute(G, node_path, start, order) ==
    LET edges == EdgeData(G, node_path[start], node_path[start + 1])
        min_weight == MinWeight(edges)
        candidates == { e.route_id : e \in { x \in edges : x.kind = "trip" /\ x.weight = min_weight } }
    IN order[CHOOSE i \in 1..Len(order) :
                /\ order[i] \in candidates
                /\ \A k \in 1..(i - 1) : order[k] \notin candidates]

\* _pick_longest_route; `order` is the order in which the candidate set is
\* iterated.  A later candidate replaces the best only with a longer run.
PickLongestRoute(G, node_path, start, order) ==
    LET edges == EdgeData(G, node_path[start], node_path[start + 1])
        min_weight == MinWeight(edges)
        candidates == { e.route_id : e \in { x \in edges : x.kind = "trip" /\ x.weight = min_weight } }
        count(r) == RunLength(G, node_path, start, r)
        idx == { i \in 1..Len(order) : order[i] \in candidates }
        best == CHOOSE i \in idx :
                    /\ \A k \in idx : count(order[k]) <= count(order[i])
                    /\ \A k \in idx : k < i => count(order[k]) < count(order[i])
    IN order[best]

TripLeg(a, b, trip_id, route_id, service_date, dep, arr) ==
    [kind |-> "trip", from_stop_id |-> a, to_stop_id |-> b, trip_id |-> trip_id,
     route_id |-> route_id, service_id |-> service_date,
     departure_time |-> dep, arrival_time |-> arr,
     travel_seconds |-> Max(0, HmsToSeconds(arr) - HmsToSeconds(dep)),
     distance_m |-> 0, walk_seconds |-> 0]

WalkLeg(u, v, best) ==
    [kind |-> "walk", from_stop_id |-> u, to_stop_id |-> v, trip_id |-> "",
     route_id |-> "", service_id |-> "", departure_time |-> << >>, arrival_time |-> << >>,
     travel_seconds |-> 0, distance_m |-> best.distance_m, walk_seconds |-> best.walk_seconds]

\* _RouteQueryCache()
EmptyCache == [trip_select |-> << >>, stop_times |-> << >>]

\* dict[key] = value
Put(f, k, v) == [x \in DOMAIN f \cup {k} |-> IF x = k THEN v ELSE f[x]]

\* A variant of the query without its condition on stop_sequence.
TripSelectRowsAnyOrder(db, route_id, first_stop, last_stop, service_date, not_before_sec) ==
    UNION { { [trip_id |-> t.trip_id, departure_time |-> t.st[i].departure_time]
                : i \in { k \in 1..Len(t.st) :
                            /\ t.st[k].stop_id = first_stop
                            /\ HmsToSeconds(t.st[k].departure_time) >= not_before_sec
                            /\ \E l \in 1..Len(t.st) : t.st[l].stop_id = last_stop } }
            : t \in { x \in db.trips : x.route_id = route_id /\ x.service_id = service_date } }

\* The rows of the trip-selection query of _find_trip_legs: a first stop time
\* at stops[0] at or after not_before, joined to a later one at stops[-1].
TripSelectRows(db, route_id, first_stop, last_stop, service_date, not_before_sec) ==
    UNION { { [trip_id |-> t.trip_id, departure_time |-> t.st[i].departure_time]
                : i \in { k \in 1..Len(t.st) :
                            /\ t.st[k].stop_id = first_stop
                            /\ HmsToSeconds(t.st[k].departure_time) >= not_before_sec
                            /\ \E l \in 1..Len(t.st) :
                                   /\ t.st[l].stop_id = last_stop
                                   /\ t.st[l].stop_sequence > t.st[k].stop_sequence } }
            : t \in { x \in db.trips : x.route_id = route_id /\ x.service_id = service_date } }

\* ORDER BY departure_time ASC LIMIT 1; of rows with the same departure_time
\* the store may return any, `first` saying which end of the trip order.
TripSelect(db, route_id, first_stop, last_stop, service_date, not_before_sec, first) ==
    LET rows == TripSelectRows(db, route_id, first_stop, last_stop, service_date, not_before_sec)
        earliest == { r \in rows : \A q \in rows : ~HmsStrLess(q.departure_time, r.departure_time) }
    IN IF rows = {} THEN None
       ELSE (CHOOSE r \in earliest :
                \A q \in earliest :
                    IF first THEN TripRank(r.trip_id) <= TripRank(q.trip_id)
                    ELSE TripRank(r.trip_id) >= TripRank(q.trip_id)).trip_id

\* {st.stop_id: st for st in stop_rows}: of two stop times at one stop the
\* later in stop_sequence is kept.
FullStopMap(db, trip_id) ==
    LET t == CHOOSE x \in db.trips : x.trip_id = trip_id
        stops == { t.st[i].stop_id : i \in 1..Len(t.st) }
    IN [s \in stops |->
          t.st[CHOOSE i \in 1..Len(t.st) :
                  /\ t.st[i].stop_id = s
                  /\ \A k \in 1..Len(t.st) : t.st[k].stop_id = s => k <= i]]

\* cache.trip_select[trip_key] = trip_id (lines 353-355)
StoreTripSelect(cache, trip_key, trip_id) ==
    [trip_id |-> trip_id, cache |-> [cache EXCEPT !.trip_select = Put(@, trip_key, trip_id)]]

\* Lines 320-355 of _find_trip_legs: the trip_id from the memo cache, or from
\* the store and then memoized.
LookupTrip(db, trip_key, cache, first) ==
    IF trip_key \in DOMAIN cache.trip_select
    THEN [trip_id |-> cache.trip_select[trip_key], cache |-> cache]
    ELSE StoreTripSelect(cache, trip_key,
             TripSelect(db, trip_key[1], trip_key[2], trip_key[3], trip_key[4], trip_key[5], first))

\* cache.stop_times[trip_id] = full_stop_map (lines 370-372)
StoreStopTimes(cache, trip_id, full_stop_map) ==
    [map |-> full_stop_map, cache |-> [cache EXCEPT !.stop_times = Put(@, trip_id, full_stop_map)]]

\* Lines 360-372 of _find_trip_legs: the trip's stop map from the memo cache,
\* or from the store and then memoized.
LookupStopTimes(db, trip_id, cache) ==
    IF trip_id \in DOMAIN cache.stop_times
    THEN [map |-> cache.stop_times[trip_id], cache |-> cache]
    ELSE StoreStopTimes(cache, trip_id, FullStopMap(db, trip_id))

\* Lines 374-401 of _find_trip_legs: every stop must be served by the trip;
\* one leg per consecutive stop pair.  ok is FALSE where the code returns None.
AssembleLegs(route_id, stops, service_date, trip_id, m) ==
    IF \E k \in 1..Len(stops) : stops[k] \notin DOMAIN m.map
    THEN [ok |-> FALSE, legs |-> << >>, cache |-> m.cache]
    ELSE [ok |-> TRUE,
          legs |-> [k \in 1..(Len(stops) - 1) |->
                      TripLeg(stops[k], stops[k + 1], trip_id, route_id, service_date,
                              m.map[stops[k]].departure_time,
                              m.map[stops[k + 1]].arrival_time)],
          cache |-> m.cache]

\* Lines 357-401 of _find_trip_legs, given the selected trip.
LegsOfSelected(db, route_id, stops, service_date, sel) ==
    IF sel.trip_id = None THEN [ok |-> FALSE, legs |-> << >>, cache |-> sel.cache]
    ELSE AssembleLegs(route_id, stops, service_date, sel.trip_id,
                      LookupStopTimes(db, sel.trip_id, sel.cache))

\* _find_trip_legs; the result carries the legs (ok is FALSE where the code
\* returns None) and the memo cache as the call leaves it.
FindTripLegs(db, route_id, stops, not_before_sec, service_date, cache, first) ==
    LegsOfSelected(db, route_id, stops, service_date,
        LookupTrip(db, << route_id, stops[1], Last(stops), service_date, not_before_sec >>,
                   cache, first))

\* The state of the loop of _schedule_path: the legs so far, the running
\* not_before_sec, the memo cache, and whether the call has returned None.
SchedState(legs, not_before_sec, cache, failed) ==
    [legs |-> legs, not_before_sec |-> not_before_sec, cache |-> cache, failed |-> failed]

RECURSIVE ScheduleFrom(_, _, _, _, _, _, _)

\* Lines 282-290: the segment's legs are appended and the clock moves to its
\* last arrival plus the transfer buffer; the loop goes on from j.
ScheduleBound(db, G, node_path, service_date, j, s, orc, r) ==
    IF ~r.ok THEN SchedState(s.legs, s.not_before_sec, r.cache, TRUE)
    ELSE ScheduleFrom(db, G, node_path, service_date, j,
             SchedState(s.legs \o r.legs,
                        HmsToSeconds(Last(r.legs).arrival_time) + MIN_TRANSFER_MINUTES * 60,
                        r.cache, FALSE), orc)

\* Lines 263-281: the segment is the run of stops route_id serves from i on.
ScheduleSegment(db, G, node_path, service_date, i, s, orc, route_id, j) ==
    ScheduleBound(db, G, node_path, service_date, j, s, orc,
        FindTripLegs(db, route_id, SubSeq(node_path, i, j), s.not_before_sec,
                     service_date, s.cache, orc.first))

\* A variant in which a walk leg does not move the clock.
ScheduleEdgeWalkFree(db, G, node_path, service_date, i, s, orc, best, route_id) ==
    IF best.kind = "walk"
    THEN ScheduleFrom(db, G, node_path, service_date, i + 1,
             SchedState(Append(s.legs, WalkLeg(node_path[i], node_path[i + 1], best)),
                        s.not_before_sec, s.cache, FALSE), orc)
    ELSE ScheduleSegment(db, G, node_path, service_date, i, s, orc, route_id,
                         i + RunLength(G, node_path, i, route_id))

\* Lines 244-262: a walk leg, or a trip segment on the route picked.
ScheduleEdge(db, G, node_path, service_date, i, s, orc, best, route_id) ==
    IF best.kind = "walk"
    THEN ScheduleFrom(db, G, node_path, service_date, i + 1,
             SchedState(Append(s.legs, WalkLeg(node_path[i], node_path[i + 1], best)),
                        s.not_before_sec + best.walk_seconds, s.cache, FALSE), orc)
    ELSE ScheduleSegment(db, G, node_path, service_date, i, s, orc, route_id,
                         i + RunLength(G, node_path, i, route_id))

\* The while loop of _schedule_path (lines 237-290) from index i on.
ScheduleFrom(db, G, node_path, service_date, i, s, orc) ==
    IF i >= Len(node_path) THEN s
    ELSE IF EdgeData(G, node_path[i], node_path[i + 1]) = {}
    THEN SchedState(s.legs, s.not_before_sec, s.cache, TRUE)
    ELSE ScheduleEdge(db, G, node_path, service_date, i, s, orc,
                      BestEdge(EdgeData(G, node_path[i], node_path[i + 1])),
                      PickLongestRoute(G, node_path, i, orc.routes))

\* The result of _schedule_path from the final loop state (line 292).
ScheduleResult(s) == [ok |-> ~s.failed /\ s.legs # << >>, legs |-> s.legs, cache |-> s.cache]

\* _schedule_path(session, G, node_path, departure_dt, cache): the legs (ok
\* is FALSE where the code returns None) and the memo cache as the call
\* leaves it.  departure_dt is the pair of its date (as strftime("%Y%m%d")
\* gives it) and its time of day.
SchedulePath(db, G, node_path, departure_dt, cache, orc) ==
    ScheduleResult(ScheduleFrom(db, G, node_path, departure_dt.date, 1,
                       SchedState(<< >>, HmsToSeconds(departure_dt.time), cache, FALSE), orc))

TripLegsOf(legs) == SelectSeq(legs, LAMBDA l : l.kind = "trip")

\* count_transfers / the first loop of _passes_filters
CountTransfers(trip_legs) ==
    Cardinality({ i \in 2..Len(trip_legs) : trip_legs[i].route_id # trip_legs[i - 1].route_id })

\* A variant of _passes_filters without its "no trip legs" rejection.
PassesFiltersWalkOnly(legs) ==
    LET trip_legs == TripLegsOf(legs)
    IN /\ ~(CountTransfers(trip_legs) > MAX_TRANSFERS)
       /\ \A i \in 2..Len(trip_legs) :
             trip_legs[i].route_id # trip_legs[i - 1].route_id =>
                ~(HmsToSeconds(trip_legs[i].departure_time)
                    - HmsToSeconds(trip_legs[i - 1].arrival_time) < MIN_TRANSFER_MINUTES * 60)

\* _passes_filters
PassesFilters(legs) ==
    LET trip_legs == TripLegsOf(legs)
    IN /\ trip_legs # << >>
       /\ ~(CountTransfers(trip_legs) > MAX_TRANSFERS)
       /\ \A i \in 2..Len(trip_legs) :
             trip_legs[i].route_id # trip_legs[i - 1].route_id =>
                ~(HmsToSeconds(trip_legs[i].departure_time)
                    - HmsToSeconds(trip_legs[i - 1].arrival_time) < MIN_TRANSFER_MINUTES * 60)

\* _route_signature
RECURSIVE RouteSignatureFrom(_, _, _)
RouteSignatureFrom(legs, i, sig) ==
    IF i > Len(legs) THEN sig
    ELSE IF legs[i].kind = "trip" /\ (sig = << >> \/ Last(sig) # legs[i].trip_id)
         THEN RouteSignatureFrom(legs, i + 1, Append(sig, legs[i].trip_id))
         ELSE RouteSignatureFrom(legs, i + 1, sig)
RouteSignature(legs) == RouteSignatureFrom(legs, 1, << >>)

\* A variant of the membership test that never finds the signature.
IsDuplicateNever(sig, seen) == FALSE

\* A variant that reads the module-level graph again instead of the local.
GraphReread(local, cached) == cached

\* The graph a step of find_routes works on: its local G, passed down as an
\* argument (lines 137, 153-156, 558).
GraphUsed(local, cached) == local

\* sig in seen_signatures (lines 143 and 568)
IsDuplicate(sig, seen) == sig \in seen

\* A variant of the loop condition that is off by one.
FillHasRoomOffByOne(rs, max_routes) == Len(rs) <= max_routes

\* len(routes) < max_routes, the condition of the fill loops (lines 547, 550)
FillHasRoom(rs, max_routes) == Len(rs) < max_routes

\* A variant that restarts at the first trip's departure itself.
NextNotBeforeSame(legs) ==
    IF TripLegsOf(legs) = << >> THEN NoneSec
    ELSE HmsToSeconds(TripLegsOf(legs)[1].departure_time)

\* next((l for l in legs if l["kind"] == "trip"), None), then
\* _hms_to_seconds(first_trip["departure_time"]) + 1, or None
NextNotBefore(legs) ==
    IF TripLegsOf(legs) = << >> THEN NoneSec
    ELSE HmsToSeconds(TripLegsOf(legs)[1].departure_time) + 1

(***************************************************************************)
(* Reliability records: reliability/historical.py, seed_reliability.py     *)
(***************************************************************************)

\* The service days of the model in ascending order; Day1 is a Monday.
Calendar == << Day1, Day2 >>
DayNum(d) == CHOOSE i \in 1..Len(Calendar) : Calendar[i] = d
\* datetime.weekday(): Monday is 0
Weekday(day) == (day - 1) % 7

\* A datetime: the number of its day in Calendar and its seconds past midnight.
DateTime(day, secs) == [day |-> day, secs |-> secs]
DtLess(a, b) == a.day < b.day \/ (a.day = b.day /\ a.secs < b.secs)
DtSeconds(a) == a.day * 86400 + a.secs

\* classify_time_bucket
ClassifyTimeBucket(dt) ==
    IF Weekday(dt.day) >= 5 THEN "weekend"
    ELSE IF 6 <= dt.secs \div 3600 /\ dt.secs \div 3600 < 9 THEN "weekday_am_peak"
    ELSE IF 15 <= dt.secs \div 3600 /\ dt.secs \div 3600 < 19 THEN "weekday_pm_peak"
    ELSE "weekday_offpeak"

\* _PRIORS, the rates in hundredths
Priors ==
    [weekday_am_peak |-> [reliability_rate |-> 85, cancellation_rate |-> 3, avg_delay_seconds |-> 180],
     weekday_pm_peak |-> [reliability_rate |-> 80, cancellation_rate |-> 5, avg_delay_seconds |-> 300],
     weekday_offpeak |-> [reliability_rate |-> 90, cancellation_rate |-> 2, avg_delay_seconds |-> 120],
     weekend         |-> [reliability_rate |-> 75, cancellation_rate |-> 8, avg_delay_seconds |-> 240]]

\* round(scheduled * rate): Python rounds halves to the even neighbour
RoundRate(scheduled, rate) ==
    IF (scheduled * rate) % 100 > 50
         \/ ((scheduled * rate) % 100 = 50 /\ ((scheduled * rate) \div 100) % 2 = 1)
    THEN (scheduled * rate) \div 100 + 1
    ELSE (scheduled * rate) \div 100

\* A row of reliability_records (the key columns are the key of the table).
Record(scheduled, observed, cancelled, total_delay) ==
    [scheduled_departures |-> scheduled, observed_departures |-> observed,
     cancellation_count |-> cancelled, total_delay_seconds |-> total_delay]

\* seed_from_static, lines 149-152 and 168-171
SeedRecord(bucket, scheduled) ==
    Record(scheduled,
           RoundRate(scheduled, Priors[bucket].reliability_rate),
           RoundRate(scheduled, Priors[bucket].cancellation_rate),
           RoundRate(scheduled, Priors[bucket].reliability_rate) * Priors[bucket].avg_delay_seconds)

\* SELECT MIN(service_id), MAX(service_id) FROM trips, as day numbers
DbMin(db) == CHOOSE d \in {DayNum(t.service_id) : t \in db.trips} :
                \A t \in db.trips : d <= DayNum(t.service_id)
DbMax(db) == CHOOSE d \in {DayNum(t.service_id) : t \in db.trips} :
                \A t \in db.trips : d >= DayNum(t.service_id)

\* window_start and window_end, lines 100-101
WindowStart(db, today) ==
    IF today <= DbMax(db) THEN Max(DbMin(db), today) ELSE DbMin(db)
WindowEnd(db, today, window_days) ==
    Min(WindowStart(db, today) + window_days - 1, DbMax(db))

\* The stop times counted by the aggregate query of lines 113-127, each with
\* the key its (service date, departure hour) is classified under.
SeedRows(db, start, end) ==
    UNION { { [trip_id |-> t.trip_id, seq |-> i,
               key |-> << t.route_id, t.st[i].stop_id,
                          ClassifyTimeBucket(DateTime(DayNum(t.service_id),
                                                      (t.st[i].departure_time[1] % 24) * 3600)) >>]
                : i \in 1..Len(t.st) }
            : t \in { x \in db.trips :
                        start <= DayNum(x.service_id) /\ DayNum(x.service_id) <= end } }

\* counts, lines 136-144
SeedCounts(db, start, end) ==
    [k \in { r.key : r \in SeedRows(db, start, end) } |->
        Cardinality({ r \in SeedRows(db, start, end) : r.key = k })]

\* A variant of the upsert loop that adds the priors to the counters of an
\* existing record.
SeedUpsertAdding(recs, cs) ==
    [k \in DOMAIN recs \cup DOMAIN cs |->
        IF k \notin DOMAIN cs THEN recs[k]
        ELSE IF k \notin DOMAIN recs THEN SeedRecord(k[3], cs[k])
        ELSE Record(recs[k].scheduled_departures + SeedRecord(k[3], cs[k]).scheduled_departures,
                    recs[k].observed_departures + SeedRecord(k[3], cs[k]).observed_departures,
                    recs[k].cancellation_count + SeedRecord(k[3], cs[k]).cancellation_count,
                    recs[k].total_delay_seconds + SeedRecord(k[3], cs[k]).total_delay_seconds)]

\* The upsert loop, lines 147-174, for the counts cs.
SeedUpsert(recs, cs) ==
    [k \in DOMAIN recs \cup DOMAIN cs |->
        IF k \in DOMAIN cs THEN SeedRecord(k[3], cs[k]) ELSE recs[k]]

\* seed_from_static(session, window_days)
SeedFromStatic(recs, db, today, window_days) ==
    IF db.trips = {}
    THEN [raised |-> "RuntimeError", records |-> recs, written |-> 0]
    ELSE [raised |-> "",
          records |-> SeedUpsert(recs, SeedCounts(db, WindowStart(db, today),
                                                  WindowEnd(db, today, window_days))),
          written |-> Cardinality(DOMAIN SeedCounts(db, WindowStart(db, today),
                                                    WindowEnd(db, today, window_days)))]

\* The parameters seed_from_static declares (line 63).
SeedParams == {"session", "window_days"}

\* A variant of the call that drops the keyword arguments the function does
\* not declare.
CallSeedIgnoringUnknown(recs, db, today, kwargs) ==
    SeedFromStatic(recs, db, today,
                   IF "window_days" \in DOMAIN kwargs THEN kwargs.window_days
                   ELSE DEFAULT_WINDOW_DAYS)

\* A call seed_from_static(session, **kwargs): a keyword the function does
\* not declare is a TypeError raised before its body runs.
CallSeedFromStatic(recs, db, today, kwargs) ==
    IF \E k \in DOMAIN kwargs : k \notin SeedParams
    THEN [raised |-> "TypeError", records |-> recs, written |-> 0]
    ELSE SeedFromStatic(recs, db, today,
                        IF "window_days" \in DOMAIN kwargs THEN kwargs.window_days
                        ELSE DEFAULT_WINDOW_DAYS)

\* The updated row of record_observed_departure, lines 115-120.
Observed(rec, delay_seconds, was_cancelled) ==
    IF was_cancelled
    THEN [rec EXCEPT !.scheduled_departures = @ + 1, !.cancellation_count = @ + 1]
    ELSE [rec EXCEPT !.scheduled_departures = @ + 1, !.observed_departures = @ + 1,
                     !.total_delay_seconds = @ + delay_seconds]

\* record_observed_departure.  A row created at lines 107-113 has no counter
\* values before it is first flushed (the column defaults are applied by the
\* INSERT), so line 115 raises TypeError for a key without a row; commit_ok
\* says whether the commit of line 124 succeeds.
RecordObservedDeparture(recs, route_id, stop_id, scheduled_at, delay_seconds, was_cancelled, commit_ok) ==
    IF << route_id, stop_id, ClassifyTimeBucket(scheduled_at) >> \notin DOMAIN recs
    THEN [raised |-> "TypeError", records |-> recs]
    ELSE IF ~commit_ok
    THEN [raised |-> "OperationalError", records |-> recs]
    ELSE [raised |-> "",
          records |-> [recs EXCEPT ![<< route_id, stop_id, ClassifyTimeBucket(scheduled_at) >>] =
                            Observed(@, delay_seconds, was_cancelled)]]

(***************************************************************************)
(* Live state: ingestion/gtfs_realtime.py                                  *)
(***************************************************************************)

\* A feed is a sequence of entities; an entity has one of the fields
\* trip_update, alert, vehicle (its kind).
TripUpdateEntity(trip_id, route_id, schedule_relationship, stus) ==
    [kind |-> "trip_update", trip_id |-> trip_id, route_id |-> route_id,
     schedule_relationship |-> schedule_relationship, stop_time_update |-> stus]
StopTimeUpdate(stop_id, has_departure, delay) ==
    [stop_id |-> stop_id, has_departure |-> has_departure, delay |-> delay]
AlertEntity(id, header, informed) ==
    [kind |-> "alert", id |-> id, header |-> header, informed_entity |-> informed]
VehicleEntity(trip_id, lat, timestamp) ==
    [kind |-> "vehicle", trip_id |-> trip_id, lat |-> lat, timestamp |-> timestamp]

\* The overrides dict of poll_trip_updates, lines 105-111.
RECURSIVE OverridesFrom(_, _, _)
OverridesFrom(stus, i, overrides) ==
    IF i > Len(stus) THEN overrides
    ELSE OverridesFrom(stus, i + 1,
                       IF stus[i].has_departure
                       THEN Put(overrides, stus[i].stop_id, stus[i].delay)
                       ELSE overrides)

\* delay, lines 103-111: the delay of the last update that has a departure.
RECURSIVE LastDelayFrom(_, _, _)
LastDelayFrom(stus, i, delay) ==
    IF i > Len(stus) THEN delay
    ELSE LastDelayFrom(stus, i + 1, IF stus[i].has_departure THEN stus[i].delay ELSE delay)

\* TripUpdateState(...), lines 117-123
TripUpdateState(tu) ==
    [trip_id |-> tu.trip_id, route_id |-> tu.route_id,
     delay_seconds |-> LastDelayFrom(tu.stop_time_update, 1, 0),
     is_cancelled |-> (tu.schedule_relationship = 3),
     stop_time_overrides |-> OverridesFrom(tu.stop_time_update, 1, << >>)]

\* d[state.trip_id] = state on a dict kept as the sequence of its values in
\* insertion order: a key already present keeps its place.
DictPut(d, state) ==
    IF \E n \in 1..Len(d) : d[n].trip_id = state.trip_id
    THEN [n \in 1..Len(d) |-> IF d[n].trip_id = state.trip_id THEN state ELSE d[n]]
    ELSE Append(d, state)
DictKeys(d) == { d[n].trip_id : n \in 1..Len(d) }
DictGet(d, trip_id) == d[CHOOSE n \in 1..Len(d) : d[n].trip_id = trip_id]

\* l.clear(); l.extend(alerts), lines 157-158
ClearAndExtend(l, alerts) == alerts

\* d.update(updated)
RECURSIVE DictUpdateFrom(_, _, _)
DictUpdateFrom(d, updated, i) ==
    IF i > Len(updated) THEN d ELSE DictUpdateFrom(DictPut(d, updated[i]), updated, i + 1)

\* A variant of the swap without the clear(): d.update(updated) alone.
UpdateWithoutClear(d, updated) == DictUpdateFrom(d, updated, 1)

\* d.clear(); d.update(updated), lines 125-126 and 180-181: the contents
\* become those of updated.
ClearAndUpdate(d, updated) == DictUpdateFrom(<< >>, updated, 1)

\* The loop of poll_trip_updates, lines 95-123.
RECURSIVE ParseTripUpdatesFrom(_, _, _)
ParseTripUpdatesFrom(entities, i, updated) ==
    IF i > Len(entities) THEN updated
    ELSE ParseTripUpdatesFrom(entities, i + 1,
                              IF entities[i].kind = "trip_update"
                              THEN DictPut(updated, TripUpdateState(entities[i]))
                              ELSE updated)
ParseTripUpdates(feed) == ParseTripUpdatesFrom(feed, 1, << >>)

\* ServiceAlertState(...), lines 141-155 (the description is left out)
ServiceAlertState(e) ==
    [alert_id |-> e.id, header |-> e.header,
     affected_route_ids |->
        [k \in 1..Len(SelectSeq(e.informed_entity, LAMBDA ie : ie.route_id # "")) |->
            SelectSeq(e.informed_entity, LAMBDA ie : ie.route_id # "")[k].route_id],
     affected_stop_ids |->
        [k \in 1..Len(SelectSeq(e.informed_entity, LAMBDA ie : ie.stop_id # "")) |->
            SelectSeq(e.informed_entity, LAMBDA ie : ie.stop_id # "")[k].stop_id]]

\* The loop of poll_service_alerts, lines 136-155.
ParseAlerts(feed) ==
    [k \in 1..Len(SelectSeq(feed, LAMBDA e : e.kind = "alert")) |->
        ServiceAlertState(SelectSeq(feed, LAMBDA e : e.kind = "alert")[k])]

\* The loop of poll_vehicle_positions, lines 168-178.
RECURSIVE ParseVehiclePositionsFrom(_, _, _)
ParseVehiclePositionsFrom(entities, i, updated) ==
    IF i > Len(entities) THEN updated
    ELSE ParseVehiclePositionsFrom(entities, i + 1,
            IF entities[i].kind = "vehicle"
            THEN DictPut(updated, [trip_id |-> entities[i].trip_id, lat |-> entities[i].lat,
                                   timestamp |-> entities[i].timestamp])
            ELSE updated)
ParseVehiclePositions(feed) == ParseVehiclePositionsFrom(feed, 1, << >>)

\* _parse_scheduled_at: the service day plus timedelta(hours, minutes, seconds)
ParseScheduledAt(departure_time, service_id) ==
    IF Len(departure_time) # 3
    THEN [ok |-> FALSE, at |-> DateTime(0, 0)]
    ELSE [ok |-> TRUE,
          at |-> DateTime(DayNum(service_id) + HmsToSeconds(departure_time) \div 86400,
                          HmsToSeconds(departure_time) % 86400)]

\* The rows of one trip from the query of lines 243-248, which has no
\* ORDER BY: in stop_sequence order or (rev) the reverse of it.
StopRows(db, trip_id, rev) ==
    IF \A t \in db.trips : t.trip_id # trip_id THEN << >>
    ELSE [k \in 1..Len((CHOOSE t \in db.trips : t.trip_id = trip_id).st) |->
            [stop_id |-> (CHOOSE t \in db.trips : t.trip_id = trip_id).st[
                            IF rev THEN Len((CHOOSE t \in db.trips : t.trip_id = trip_id).st) + 1 - k
                            ELSE k].stop_id,
             dep_time |-> (CHOOSE t \in db.trips : t.trip_id = trip_id).st[
                            IF rev THEN Len((CHOOSE t \in db.trips : t.trip_id = trip_id).st) + 1 - k
                            ELSE k].departure_time,
             service_id |-> (CHOOSE t \in db.trips : t.trip_id = trip_id).service_id]]

\* The calls of record_observed_departure one trip leads to, in order:
\* lines 265-280 for a cancelled trip, lines 282-302 for one with overrides.
RecordCalls(state, stop_rows, now) ==
    IF state.is_cancelled
    THEN SelectSeq(stop_rows, LAMBDA r : ParseScheduledAt(r.dep_time, r.service_id).ok)
    ELSE IF DOMAIN state.stop_time_overrides # {}
    THEN SelectSeq(stop_rows,
                   LAMBDA r : /\ r.stop_id \in DOMAIN state.stop_time_overrides
                              /\ ParseScheduledAt(r.dep_time, r.service_id).ok
                              /\ ~DtLess(now, ParseScheduledAt(r.dep_time, r.service_id).at))
    ELSE << >>

\* The state observe_departures works on: the table, _recorded_today, the
\* exception raised (if any), the count it returns, the number of calls of
\* record_observed_departure made, and the history of the writes made so
\* far, by (trip_id, stop_id, day of the run).
ObsState(recs, rtoday, raised, recorded, calls, log) ==
    [records |-> recs, recorded_today |-> rtoday, raised |-> raised,
     recorded |-> recorded, calls |-> calls, log |-> log]

\* One more write in the history.
Logged(log, k) == Put(log, k, IF k \in DOMAIN log THEN log[k] + 1 ELSE 1)

\* The state after a call of record_observed_departure with outcome r.
AfterRecord(o, r, k) ==
    IF r.raised # ""
    THEN ObsState(o.records, o.recorded_today, r.raised, o.recorded, o.calls + 1, o.log)
    ELSE ObsState(r.records, o.recorded_today, "", o.recorded + 1, o.calls + 1, Logged(o.log, k))

\* The for loops of lines 267-280 and 286-302 over the calls of one trip.
RECURSIVE RecordFrom(_, _, _, _, _, _)
RecordFrom(state, calls, i, o, today, fail_at) ==
    IF i > Len(calls) \/ o.raised # "" THEN o
    ELSE RecordFrom(state, calls, i + 1,
                    AfterRecord(o,
                                RecordObservedDeparture(
                                    o.records, state.route_id, calls[i].stop_id,
                                    ParseScheduledAt(calls[i].dep_time, calls[i].service_id).at,
                                    IF state.is_cancelled THEN 0
                                    ELSE state.stop_time_overrides[calls[i].stop_id],
                                    state.is_cancelled, o.calls + 1 # fail_at),
                                << state.trip_id, calls[i].stop_id, today >>),
                    today, fail_at)

\* A variant that records every trip it has looked at.
MarkRecordedAlways(o, trip_id, calls) ==
    IF o.raised = "" THEN [o EXCEPT !.recorded_today = @ \cup { trip_id }] ELSE o

\* Lines 304-305: the trip joins _recorded_today if anything was written.
MarkRecorded(o, trip_id, calls) ==
    IF o.raised = "" /\ calls # << >>
    THEN [o EXCEPT !.recorded_today = @ \cup { trip_id }]
    ELSE o

\* The loop of lines 258-305 over the unrecorded trips.
RECURSIVE ObserveFrom(_, _, _, _, _, _)
ObserveFrom(unrecorded, j, o, db, now, orc) ==
    IF j > Len(unrecorded) \/ o.raised # "" THEN o
    ELSE ObserveFrom(unrecorded, j + 1,
                     MarkRecorded(
                         RecordFrom(unrecorded[j],
                                    RecordCalls(unrecorded[j],
                                                StopRows(db, unrecorded[j].trip_id, orc.rev), now),
                                    1, o, now.day, orc.fail_at),
                         unrecorded[j].trip_id,
                         RecordCalls(unrecorded[j],
                                     StopRows(db, unrecorded[j].trip_id, orc.rev), now)),
                     db, now, orc)

\* observe_departures: lines 231-234 reset _recorded_today on a new day,
\* lines 236-239 select the trips not recorded yet.
ObserveDepartures(recs, rtoday, rdate, tu, db, now, log, orc) ==
    ObserveFrom(SelectSeq(tu, LAMBDA s : s.trip_id \notin
                                  (IF Calendar[now.day] # rdate THEN {} ELSE rtoday)),
                1,
                ObsState(recs, IF Calendar[now.day] # rdate THEN {} ELSE rtoday, "", 0, 0, log),
                db, now, orc)

(***************************************************************************)
(* Risk scoring: reliability/historical.py and reliability/live.py         *)
(***************************************************************************)

\* The floats of the scoring are modelled as exact fractions n/d, d > 0, in
\* lowest terms.
RECURSIVE Gcd(_, _)
Gcd(a, b) == IF b = 0 THEN a ELSE Gcd(b, a % b)
Abs(x) == IF x < 0 THEN 0 - x ELSE x
Rat(n, d) == [n |-> n \div Gcd(Abs(n), d), d |-> d \div Gcd(Abs(n), d)]
Lcm(a, b) == (a \div Gcd(a, b)) * b
RatAdd(x, y) ==
    Rat(x.n * (Lcm(x.d, y.d) \div x.d) + y.n * (Lcm(x.d, y.d) \div y.d), Lcm(x.d, y.d))
RatSub(x, y) == RatAdd(x, [n |-> 0 - y.n, d |-> y.d])
RatMul(x, y) == Rat(x.n * y.n, x.d * y.d)
RatLess(x, y) == x.n * y.d < y.n * x.d
RatMin(x, y) == IF RatLess(y, x) THEN y ELSE x
RatMax(x, y) == IF RatLess(x, y) THEN y ELSE x

\* get_historical_reliability: the score of the record of the key, 0.8
\* without a record or without scheduled departures.
HistoricalReliability(recs, route_id, stop_id, time_bucket) ==
    IF << route_id, stop_id, time_bucket >> \notin DOMAIN recs
       \/ recs[<< route_id, stop_id, time_bucket >>].scheduled_departures = 0
    THEN Rat(4, 5)
    ELSE LET record == recs[<< route_id, stop_id, time_bucket >>]
             observed_rate == Rat(record.observed_departures, record.scheduled_departures)
             cancel_rate == Rat(record.cancellation_count, record.scheduled_departures)
             avg_delay_min == IF record.observed_departures > 0
                              THEN Rat(record.total_delay_seconds,
                                       record.observed_departures * 60)
                              ELSE Rat(0, 1)
             delay_penalty == RatMul(RatMin(RatMul(avg_delay_min, Rat(1, 30)), Rat(1, 1)),
                                     Rat(1, 5))
             score == RatSub(RatMul(observed_rate, RatSub(Rat(1, 1), cancel_rate)),
                             delay_penalty)
         IN RatMax(Rat(0, 1), RatMin(Rat(1, 1), score))

\* The risk adjustment constants of live.py, lines 30-34.
ALERT_RISK_BUMP == Rat(10, 100)
CANCELLATION_RISK_BUMP == Rat(15, 100)
MISSING_VEHICLE_RISK_BUMP == Rat(8, 100)
LATE_EVENING_RISK_BUMP == Rat(5, 100)
WEEKEND_RISK_BUMP == Rat(3, 100)

\* round(x, 3) for x >= 0, as a number of thousandths; a tie goes to the
\* even neighbour.
Round3(x) ==
    LET q == (1000 * x.n) \div x.d
        r == (1000 * x.n) % x.d
    IN IF 2 * r < x.d THEN q
       ELSE IF 2 * r > x.d THEN q + 1
       ELSE IF q % 2 = 0 THEN q ELSE q + 1

\* _risk_label
RiskLabel(score) ==
    IF RatLess(score, Rat(33, 100)) THEN "Low"
    ELSE IF RatLess(score, Rat(66, 100)) THEN "Medium"
    ELSE "High"

\* _alerts_for
AlertsFor(alerts, route_id, stop_id) ==
    SelectSeq(alerts, LAMBDA a :
        \/ \E k \in 1..Len(a.affected_route_ids) : a.affected_route_ids[k] = route_id
        \/ \E k \in 1..Len(a.affected_stop_ids) : a.affected_stop_ids[k] = stop_id)

\* _same_route_cancellations
SameRouteCancellations(tu, route_id) ==
    Cardinality({ n \in 1..Len(tu) : tu[n].route_id = route_id /\ tu[n].is_cancelled })

\* A modifier note: its kind, the text and the number put into it.
Modifier(kind, text, n) == [kind |-> kind, text |-> text, n |-> n]

\* compute_live_risk has not been called yet.
NoRiskArgs ==
    [route_id |-> "", stop_id |-> "", trip_id |-> "", departure_time_str |-> << >>,
     query_dt |-> DateTime(0, 0), historical_reliability |-> Rat(0, 1)]
NoRisk == [risk_score |-> 0, risk_label |-> "", modifiers |-> << >>, is_cancelled |-> FALSE]

\* The sum of the adjustments of compute_live_risk, rules 2 to 6 (lines
\* 72-103).
TotalAdjustment(route_id, stop_id, trip_id, departure_time_str, query_dt, tu, alerts, vp) ==
    RatAdd(RatMul(ALERT_RISK_BUMP, Rat(Len(AlertsFor(alerts, route_id, stop_id)), 1)),
    RatAdd(IF SameRouteCancellations(tu, route_id) # 0
           THEN CANCELLATION_RISK_BUMP ELSE Rat(0, 1),
    RatAdd(IF /\ 0 < HmsToSeconds(departure_time_str) - query_dt.secs
              /\ HmsToSeconds(departure_time_str) - query_dt.secs <= 15 * 60
              /\ trip_id \notin DictKeys(vp)
           THEN MISSING_VEHICLE_RISK_BUMP ELSE Rat(0, 1),
    RatAdd(IF HmsToSeconds(departure_time_str) >= 22 * 3600
           THEN LATE_EVENING_RISK_BUMP ELSE Rat(0, 1),
           IF Weekday(query_dt.day) >= 5 THEN WEEKEND_RISK_BUMP ELSE Rat(0, 1)))))

\* The modifiers list of compute_live_risk, in the order of the rules.
Modifiers(route_id, stop_id, trip_id, departure_time_str, query_dt, tu, alerts, vp) ==
    [k \in 1..Len(AlertsFor(alerts, route_id, stop_id)) |->
        Modifier("Service alert", AlertsFor(alerts, route_id, stop_id)[k].header, 0)]
    \o (IF SameRouteCancellations(tu, route_id) # 0
        THEN << Modifier("earlier cancellation(s) on route", route_id,
                         SameRouteCancellations(tu, route_id)) >>
        ELSE << >>)
    \o (IF /\ 0 < HmsToSeconds(departure_time_str) - query_dt.secs
           /\ HmsToSeconds(departure_time_str) - query_dt.secs <= 15 * 60
           /\ trip_id \notin DictKeys(vp)
        THEN << Modifier("No vehicle position data", "", 0) >> ELSE << >>)
    \o (IF HmsToSeconds(departure_time_str) >= 22 * 3600
        THEN << Modifier("Late-evening departure", "", 0) >> ELSE << >>)
    \o (IF Weekday(query_dt.day) >= 5
        THEN << Modifier("Weekend service", "", 0) >> ELSE << >>)

\* A variant of rule 1 that never takes the early return.
IsCancelledNever(tu, trip_id) == FALSE

\* tu = trip_updates.get(trip_id); tu and tu.is_cancelled (lines 62-63)
IsCancelledNow(tu, trip_id) == trip_id \in DictKeys(tu) /\ DictGet(tu, trip_id).is_cancelled

\* A variant of the last step without its cap.
FinalRiskUncapped(base_risk, total_adjustment) == RatAdd(base_risk, total_adjustment)

\* final_risk = min(1.0, base_risk + total_adjustment) (line 106)
FinalRisk(base_risk, total_adjustment) ==
    RatMin(Rat(1, 1), RatAdd(base_risk, total_adjustment))

\* compute_live_risk over the live state (tu, alerts, vp); risk_score in
\* thousandths.
ComputeLiveRisk(route_id, stop_id, trip_id, departure_time_str, query_dt, hist, tu, alerts, vp) ==
    IF IsCancelledNow(tu, trip_id)
    THEN [risk_score |-> 1000, risk_label |-> "High",
          modifiers |-> << Modifier("Trip is currently marked as cancelled", "", 0) >>,
          is_cancelled |-> TRUE]
    ELSE [risk_score |->
              Round3(FinalRisk(RatSub(Rat(1, 1), hist),
                               TotalAdjustment(route_id, stop_id, trip_id, departure_time_str,
                                               query_dt, tu, alerts, vp))),
          risk_label |->
              RiskLabel(FinalRisk(RatSub(Rat(1, 1), hist),
                                  TotalAdjustment(route_id, stop_id, trip_id,
                                                  departure_time_str, query_dt, tu, alerts, vp))),
          modifiers |-> Modifiers(route_id, stop_id, trip_id, departure_time_str, query_dt,
                                  tu, alerts, vp),
          is_cancelled |-> FALSE]

\* total_travel_seconds, total_walk_metres (engine.py lines 472-503)
TotalTravelSeconds(legs) ==
    IF TripLegsOf(legs) = << >> THEN 0
    ELSE Max(0, HmsToSeconds(TripLegsOf(legs)[Len(TripLegsOf(legs))].arrival_time)
                  - HmsToSeconds(TripLegsOf(legs)[1].departure_time))
RECURSIVE TotalWalkMetres(_)
TotalWalkMetres(legs) ==
    IF legs = << >> THEN 0
    ELSE (IF legs[1].kind = "walk" THEN legs[1].distance_m ELSE 0) + TotalWalkMetres(Tail(legs))

\* {**leg, "risk": risk}: a new dict, the leg itself is left alone.
WithRisk(leg, leg_risk) ==
    [k \in DOMAIN leg \cup {"risk"} |-> IF k = "risk" THEN leg_risk ELSE leg[k]]

\* A variant of the scoring of a leg that looks at no live state.
ScoreLegWithoutLive(leg, query_dt, recs, tu, alerts, vp) ==
    IF leg.kind # "trip" THEN WithRisk(leg, NoRisk)
    ELSE WithRisk(leg,
            ComputeLiveRisk(leg.route_id, leg.from_stop_id, leg.trip_id, leg.departure_time,
                            query_dt,
                            HistoricalReliability(recs, leg.route_id, leg.from_stop_id,
                                                  ClassifyTimeBucket(query_dt)),
                            << >>, << >>, << >>))

\* The body of the loop over the legs of a route in get_routes (main.py
\* lines 385-402); the risk of a walk leg is None, here NoRisk.
ScoreLeg(leg, query_dt, recs, tu, alerts, vp) ==
    IF leg.kind # "trip" THEN WithRisk(leg, NoRisk)
    ELSE WithRisk(leg,
            ComputeLiveRisk(leg.route_id, leg.from_stop_id, leg.trip_id, leg.departure_time,
                            query_dt,
                            HistoricalReliability(recs, leg.route_id, leg.from_stop_id,
                                                  ClassifyTimeBucket(query_dt)),
                            tu, alerts, vp))

\* max(route_risk_scores) if route_risk_scores else 0.0, in thousandths
RECURSIVE OverallRisk(_)
OverallRisk(scored_legs) ==
    IF scored_legs = << >> THEN 0
    ELSE Max(IF scored_legs[1].kind = "trip" THEN scored_legs[1].risk.risk_score ELSE 0,
             OverallRisk(Tail(scored_legs)))

\* One element of scored_routes (main.py lines 380-413).
ScoreRoute(route_legs, query_dt, recs, tu, alerts, vp) ==
    [legs |-> [i \in 1..Len(route_legs) |->
                  ScoreLeg(route_legs[i], query_dt, recs, tu, alerts, vp)],
     total_travel_seconds |-> TotalTravelSeconds(route_legs),
     transfers |-> CountTransfers(TripLegsOf(route_legs)),
     total_walk_metres |-> TotalWalkMetres(route_legs),
     risk_score |-> OverallRisk([i \in 1..Len(route_legs) |->
                        ScoreLeg(route_legs[i], query_dt, recs, tu, alerts, vp)]),
     risk_label |->
        IF OverallRisk([i \in 1..Len(route_legs) |->
               ScoreLeg(route_legs[i], query_dt, recs, tu, alerts, vp)]) < 330 THEN "Low"
        ELSE IF OverallRisk([i \in 1..Len(route_legs) |->
                    ScoreLeg(route_legs[i], query_dt, recs, tu, alerts, vp)]) < 660
             THEN "Medium" ELSE "High"]

\* scored_routes (main.py lines 377-413)
ScoreRoutes(rs, query_dt, recs, tu, alerts, vp) ==
    [r \in 1..Len(rs) |-> ScoreRoute(rs[r], query_dt, recs, tu, alerts, vp)]

(***************************************************************************)
(* State.                                                                  *)
(***************************************************************************)
VARIABLES
    db,               \* the timetable store: [stops, trips]
    graph,            \* graph.builder._graph
    builds,           \* number of graph objects created so far
    pc,               \* where the find_routes call stands
    request,          \* its arguments
    G,                \* its local G = get_graph()
    raw_remaining,    \* the paths raw_paths has not yielded yet
    examined,
    qcache,           \* its _RouteQueryCache
    seen_signatures,
    routes,
    candidate_paths,
    path_not_before,
    fill_i,           \* the index i of the for loop of _fill_later_departures
    any_active,
    error,            \* the exception find_routes ended with, "" if none
    duplicates,       \* history: candidates of this call rejected as duplicates
    used_graphs,      \* history: the ids of the graph objects this call has read
    clock,            \* the wall clock, an index into Instants
    trip_updates,     \* gtfs_realtime.trip_updates, by insertion order
    service_alerts,   \* gtfs_realtime.service_alerts
    vehicle_positions,\* gtfs_realtime.vehicle_positions, by insertion order
    records,          \* the reliability_records table, by (route, stop, bucket)
    recorded_today,   \* gtfs_realtime._recorded_today
    recorded_date,    \* gtfs_realtime._recorded_date
    obs_log,          \* history: committed observations by (trip, stop, day)
    rt_pc,            \* where the _rt_poll_and_observe job stands
    rt_runs,          \* how many times it has started
    refresh_pc,       \* where the _daily_gtfs_refresh job stands
    ingest_pc,        \* where a POST /ingest/gtfs-static request stands
    routes_cache,     \* main._routes_cache
    response,         \* the outcome of the last GET /routes
    build_pc,         \* where a build_graph call stands
    build_G,          \* its local G
    last_built_at,    \* builder._last_built_at
    last_fetch,       \* history: the feed and the outcome of the last _fetch_feed
    open_sessions,    \* the scheduled jobs that hold an open SessionLocal()
    last_failure,     \* history: the job and the step of the last exception in a job
    escaped,          \* history: the jobs an exception has propagated out of
    last_seed,        \* the POST /ingest/reliability-seed answered in the last step, and its outcome
    risk_args,        \* the arguments of the last compute_live_risk call
    risk              \* what it returned

routingVars == << pc, request, G, raw_remaining, examined, qcache, seen_signatures,
                  routes, candidate_paths, path_not_before, fill_i, any_active, error,
                  duplicates, used_graphs >>
liveVars == << trip_updates, service_alerts, vehicle_positions >>
obsVars == << records, recorded_today, recorded_date, obs_log >>
jobVars == << rt_pc, rt_runs, refresh_pc, ingest_pc >>
cacheVars == << routes_cache, response >>
buildVars == << build_pc, build_G, last_built_at >>
auditVars == << last_fetch, open_sessions, last_failure, escaped >>
riskVars == << risk_args, risk >>
serviceVars == << clock, liveVars, obsVars, jobVars, cacheVars, buildVars, auditVars, riskVars, last_seed >>
vars == << db, graph, builds, routingVars, serviceVars >>

\* The oracle of one scheduling call: the iteration order of a route-id set
\* and the store's choice among rows of equal departure_time.
Oracles == [routes : RouteOrders, first : BOOLEAN]

Requests ==
    [origin : {"A", "B", "C", "Z"}, destination : {"C", "D", "E"},
     departure_dt : [date : {Day1}, time : {<<7, 55, 0>>, <<8, 0, 1>>}],
     max_routes : 0..MaxK]

NoRequest == [origin |-> "", destination |-> "",
              departure_dt |-> [date |-> "", time |-> << >>], max_routes |-> 0]

Timetables ==
    { [stops |-> StopIds, trips |-> ts]
        : ts \in { x \in SUBSET TripPool : Cardinality(x) <= MaxTrips } \cup { ChainTrips } }

RoutingIdle ==
    /\ pc = "idle"
    /\ request = NoRequest
    /\ G = NoGraph
    /\ raw_remaining = {}
    /\ examined = 0
    /\ qcache = EmptyCache
    /\ seen_signatures = {}
    /\ routes = << >>
    /\ candidate_paths = << >>
    /\ path_not_before = << >>
    /\ fill_i = 0
    /\ any_active = FALSE
    /\ error = ""
    /\ duplicates = 0
    /\ used_graphs = {}

\* No feed has been fetched yet; the last fetch was of the feed of the map
\* named, and delivered a feed or None.
NoFetch == [map |-> "", ok |-> FALSE]
Fetched(map, feed) == [map |-> map, ok |-> feed.ok]

\* The last step was not a POST /ingest/reliability-seed.
NoSeed ==
    [called |-> FALSE, repeats |-> FALSE, window_days |-> 0, day |-> 0, trips |-> {},
     prev_written |-> 0, raised |-> "", status |-> 0, written |-> 0, unchanged |-> TRUE]

\* No job has met an exception yet; the last one was met by job in step.
NoFailure == [job |-> "", step |-> ""]
Failure(job, step) == [job |-> job, step |-> step]

\* A variant of the polls that swaps whatever the fetch returned.
AfterPollAlwaysSwap(feed, old, swapped) == swapped

\* "if feed is None: return" (gtfs_realtime.py lines 92-93, 133-134,
\* 165-166): without a feed the map is left as it is.
AfterPoll(feed, old, swapped) == IF feed.ok THEN swapped ELSE old

\* A variant of the jobs without their except clause.
JobEscapesUncaught(raised) == raised

\* try ... except Exception (main.py lines 118-125 and 135-140): the
\* exception that leaves the job when its body has raised, "" for none.
JobEscapes(raised) == ""

\* finally: db.close() (main.py lines 126-127 and 141-142)
SessionClosed(sessions, job) == sessions \ { job }

\* The bookkeeping of a job whose body has ended with raised ("" if it has
\* not raised) in step: the handlers of the job have run.
JobEnds(job, step, raised) ==
    /\ open_sessions' = SessionClosed(open_sessions \cup { job }, job)
    /\ last_failure' = IF raised # "" THEN Failure(job, step) ELSE last_failure
    /\ escaped' = IF raised # "" /\ JobEscapes(raised) # ""
                  THEN escaped \cup { job } ELSE escaped

\* _last_built_at = None
NeverBuilt == [day |-> 0, secs |-> 0]

\* No GET /routes has been answered yet.
NoResponse == [status |-> 0, routes |-> << >>, from_cache |-> FALSE, scored |-> << >>]

\* The state of everything but the timetable, the graph and find_routes
\* after startup.
ServiceIdle ==
    /\ clock = 1
    /\ trip_updates = << >>
    /\ service_alerts = << >>
    /\ vehicle_positions = << >>
    /\ records = << >>
    /\ recorded_today = {}
    /\ recorded_date = ""
    /\ obs_log = << >>
    /\ rt_pc = "idle"
    /\ rt_runs = 0
    /\ refresh_pc = "idle"
    /\ ingest_pc = "idle"
    /\ routes_cache = << >>
    /\ response = NoResponse
    /\ build_pc = "idle"
    /\ build_G = NoGraph
    /\ last_built_at = IF graph = NoGraph THEN NeverBuilt ELSE [day |-> 1, secs |-> 0]
    /\ last_fetch = NoFetch
    /\ open_sessions = {}
    /\ last_failure = NoFailure
    /\ escaped = {}
    /\ last_seed = NoSeed
    /\ risk_args = NoRiskArgs
    /\ risk = NoRisk

\* The state after startup: lifespan() has built the graph from the store.
InitRouting ==
    /\ db \in Timetables
    /\ builds = 1
    /\ graph = BuiltGraph(db, 1)
    /\ RoutingIdle
    /\ ServiceIdle

\* A variant of the validation that looks at the origin only.
UnknownOrigin(g, origin_stop_id, destination_stop_id) == origin_stop_id \notin g.nodes

\* find_routes, lines 106-109: is the origin or the destination no node of G?
UnknownStop(g, origin_stop_id, destination_stop_id) ==
    origin_stop_id \notin g.nodes \/ destination_stop_id \notin g.nodes

\* find_routes, lines 104-133: take the snapshot, validate the stops, set up
\* the path generator and the accumulators.
FindRoutesCall(req) ==
    /\ pc = "idle"
    /\ request' = req
    /\ IF graph.id = 0
       THEN /\ pc' = "raised" /\ error' = "RuntimeError"
            /\ UNCHANGED << G, raw_remaining, used_graphs >>
       ELSE /\ G' = graph
            /\ used_graphs' = { graph.id }
            /\ IF UnknownStop(graph, req.origin, req.destination)
               THEN /\ pc' = "raised" /\ error' = "ValueError"
                    /\ UNCHANGED raw_remaining
               ELSE /\ pc' = "main" /\ error' = ""
                    /\ raw_remaining' = SimplePaths(graph, req.origin, req.destination)
    /\ UNCHANGED << examined, qcache, seen_signatures, routes, candidate_paths,
                    path_not_before, fill_i, any_active, duplicates >>

\* A call of find_routes on its own.
FindRoutesEnter(req) ==
    /\ FindRoutesCall(req)
    /\ UNCHANGED << serviceVars, db, graph, builds >>

\* What follows the main loop (lines 151-161) with the accumulators rs, cs:
\* enter _fill_later_departures (lines 534-547) or return.
AfterMainLoop(rs, cs) ==
    IF Len(rs) < request.max_routes /\ cs # << >>
    THEN /\ pc' = "fill"
         /\ path_not_before' = [k \in 1..Len(rs) |-> NextNotBefore(rs[k])]
         /\ fill_i' = 1
         /\ any_active' = FALSE
    ELSE /\ pc' = "done"
         /\ UNCHANGED << path_not_before, fill_i, any_active >>

\* raw_paths has no first path: nx.NetworkXNoPath leaves find_routes.
MainNoPath ==
    /\ pc = "main" /\ examined = 0 /\ raw_remaining = {}
    /\ pc' = "raised" /\ error' = "NetworkXNoPath"
    /\ UNCHANGED << serviceVars, db, graph, builds, request, G, raw_remaining, examined, qcache,
                    seen_signatures, routes, candidate_paths, path_not_before, fill_i,
                    any_active, duplicates, used_graphs >>

\* The main loop ends: the generator is exhausted, or MAX_CANDIDATES paths
\* have been examined.
MainLoopEnd ==
    /\ pc = "main"
    /\ \/ examined > 0 /\ raw_remaining = {}
       \/ raw_remaining # {} /\ examined >= request.max_routes * CANDIDATE_FACTOR
    /\ AfterMainLoop(routes, candidate_paths)
    /\ UNCHANGED << serviceVars, db, graph, builds, request, G, raw_remaining, examined, qcache,
                    seen_signatures, routes, candidate_paths, error, duplicates, used_graphs >>

\* One iteration of the main loop (lines 134-149) on the next path.
MainLoopIter(node_path, orc) ==
    /\ pc = "main"
    /\ examined < request.max_routes * CANDIDATE_FACTOR
    /\ node_path \in NextPaths(G, raw_remaining)
    /\ raw_remaining' = raw_remaining \ { node_path }
    /\ examined' = examined + 1
    /\ used_graphs' = used_graphs \cup { GraphUsed(G, graph).id }
    /\ LET r == SchedulePath(db, GraphUsed(G, graph), node_path, request.departure_dt,
                             qcache, orc)
           sig == RouteSignature(r.legs)
       IN /\ qcache' = r.cache
          /\ duplicates' = IF r.ok /\ PassesFilters(r.legs) /\ IsDuplicate(sig, seen_signatures)
                            THEN duplicates + 1 ELSE duplicates
          /\ IF ~r.ok \/ ~PassesFilters(r.legs) \/ IsDuplicate(sig, seen_signatures)
             THEN UNCHANGED << pc, seen_signatures, routes, candidate_paths,
                               path_not_before, fill_i, any_active >>
             ELSE /\ seen_signatures' = seen_signatures \cup { sig }
                  /\ routes' = Append(routes, r.legs)
                  /\ candidate_paths' = Append(candidate_paths, node_path)
                  /\ IF Len(routes') >= request.max_routes
                     THEN AfterMainLoop(routes', candidate_paths')
                     ELSE UNCHANGED << pc, path_not_before, fill_i, any_active >>
    /\ UNCHANGED << serviceVars, db, graph, builds, request, G, error >>

\* One iteration of the for loop of _fill_later_departures (lines 549-570).
FillIter(orc) ==
    /\ pc = "fill"
    /\ fill_i <= Len(candidate_paths)
    /\ FillHasRoom(routes, request.max_routes)
    /\ fill_i' = fill_i + 1
    /\ LET nb == path_not_before[fill_i]
       IN IF nb = NoneSec \/ nb > MAX_SECONDS
          THEN UNCHANGED << any_active, path_not_before, qcache, seen_signatures, routes,
                            duplicates, used_graphs >>
          ELSE LET next_dt == [date |-> request.departure_dt.date, time |-> SecondsToHms(nb)]
                   r == SchedulePath(db, GraphUsed(G, graph), candidate_paths[fill_i],
                                     next_dt, qcache, orc)
                   sig == RouteSignature(r.legs)
               IN /\ any_active' = TRUE
                  /\ used_graphs' = used_graphs \cup { GraphUsed(G, graph).id }
                  /\ qcache' = r.cache
                  /\ IF ~r.ok \/ ~PassesFilters(r.legs)
                     THEN /\ path_not_before' = [path_not_before EXCEPT ![fill_i] = NoneSec]
                          /\ UNCHANGED << seen_signatures, routes, duplicates >>
                     ELSE /\ path_not_before' =
                                [path_not_before EXCEPT ![fill_i] = NextNotBefore(r.legs)]
                          /\ IF ~IsDuplicate(sig, seen_signatures)
                             THEN /\ seen_signatures' = seen_signatures \cup { sig }
                                  /\ routes' = Append(routes, r.legs)
                                  /\ UNCHANGED duplicates
                             ELSE /\ duplicates' = duplicates + 1
                                  /\ UNCHANGED << seen_signatures, routes >>
    /\ UNCHANGED << serviceVars, db, graph, builds, pc, request, G, raw_remaining, examined,
                    candidate_paths, error >>

\* The for loop ends (its list is exhausted, or the break of line 551): the
\* while loop goes round again or _fill_later_departures returns.
FillRoundEnd ==
    /\ pc = "fill"
    /\ fill_i > Len(candidate_paths) \/ ~FillHasRoom(routes, request.max_routes)
    /\ IF any_active /\ FillHasRoom(routes, request.max_routes)
       THEN /\ fill_i' = 1 /\ any_active' = FALSE /\ UNCHANGED pc
       ELSE /\ pc' = "done" /\ UNCHANGED << fill_i, any_active >>
    /\ UNCHANGED << serviceVars, db, graph, builds, request, G, raw_remaining, examined, qcache,
                    seen_signatures, routes, candidate_paths, path_not_before, error,
                    duplicates, used_graphs >>

\* The locals of a find_routes call are gone.
RoutingReset ==
    /\ pc' = "idle"
    /\ request' = NoRequest
    /\ G' = NoGraph
    /\ raw_remaining' = {}
    /\ examined' = 0
    /\ qcache' = EmptyCache
    /\ seen_signatures' = {}
    /\ routes' = << >>
    /\ candidate_paths' = << >>
    /\ path_not_before' = << >>
    /\ fill_i' = 0
    /\ any_active' = FALSE
    /\ error' = ""
    /\ duplicates' = 0
    /\ used_graphs' = {}

\* find_routes returns or raises.
FindRoutesReturn ==
    /\ pc \in {"done", "raised"}
    /\ RoutingReset
    /\ UNCHANGED << serviceVars, db, graph, builds >>

NextRouting ==
    \/ \E req \in Requests : FindRoutesEnter(req)
    \/ FindRoutesReturn
    \/ MainNoPath
    \/ MainLoopEnd
    \/ \E node_path \in raw_remaining, orc \in Oracles : MainLoopIter(node_path, orc)
    \/ \E orc \in Oracles : FillIter(orc)
    \/ FillRoundEnd

SpecRouting == InitRouting /\ [][NextRouting]_vars

(***************************************************************************)
(* The scheduler jobs and the ingest endpoints: api/main.py                *)
(***************************************************************************)

\* The instants the wall clock passes through.
Instants == << DateTime(1, 8 * 3600 + 30 * 60), DateTime(1, 9 * 3600 + 30 * 60),
               DateTime(2, 8 * 3600 + 30 * 60) >>
Now == Instants[clock]

\* find_routes runs inside the coroutine of GET /routes (main.py line 359)
\* without awaiting: nothing else runs on the event loop during a call.
LoopFree == pc = "idle"

\* What _fetch_feed returns: None (ok is FALSE) or a parsed feed.
NoFeed == [ok |-> FALSE, entity |-> << >>]
Feed(entities) == [ok |-> TRUE, entity |-> entities]

\* The trips the trip-update feeds speak of, and the feeds.
FeedTrip(trip_id) == CHOOSE t \in TripPool : t.trip_id = trip_id
CancelledTrip(trip_id) ==
    TripUpdateEntity(trip_id, FeedTrip(trip_id).route_id, 3, << >>)
DelayedTrip(trip_id, delay) ==
    TripUpdateEntity(trip_id, FeedTrip(trip_id).route_id, 0,
                     [k \in 1..Len(FeedTrip(trip_id).st) |->
                        StopTimeUpdate(FeedTrip(trip_id).st[k].stop_id, TRUE, delay)])
TripUpdateFeeds ==
    { NoFeed,
      Feed(<< >>),
      Feed(<< CancelledTrip("T4") >>),
      Feed(<< DelayedTrip("T5", 0 - 240) >>),
      Feed(<< DelayedTrip("T5", 60), CancelledTrip("T4") >>) }

\* The oracle of one observe_departures run: the order of the rows of a
\* trip, and which commit fails (0: none).
ObserveOracles == [rev : BOOLEAN, fail_at : 0..MaxFailAt]

\* The timetables a static feed may hold in the reliability model.
ReliabilityTimetables ==
    { [stops |-> StopIds, trips |-> ts]
        : ts \in SUBSET { t \in TripPool : t.trip_id \in {"T4", "T5"} } }

\* The timetables a static feed may hold in the models of the jobs: those
\* with trip T4.
JobTimetables == { tt \in ReliabilityTimetables : \E t \in tt.trips : t.trip_id = "T4" }

\* The trip-update feeds of the models of the reliability records, of the
\* jobs and of the seed: no feed, a cancelled trip, a trip running early.
ReliabilityFeeds ==
    { NoFeed,
      Feed(<< CancelledTrip("T4") >>),
      Feed(<< DelayedTrip("T5", 0 - 240) >>) }

\* Time passes.
Tick ==
    /\ clock < Len(Instants)
    /\ clock' = clock + 1
    /\ last_seed' = NoSeed /\ UNCHANGED << riskVars, auditVars, db, graph, builds, routingVars, liveVars, obsVars, jobVars, cacheVars,
                    buildVars >>

\* Time passes within one service day.
TickSameDay ==
    /\ clock < Len(Instants)
    /\ Instants[clock + 1].day = Now.day
    /\ Tick

\* The scheduler starts _rt_poll_and_observe: poll_all awaits the first feed.
RtPollBegin ==
    /\ LoopFree
    /\ rt_pc = "idle"
    /\ rt_runs < MaxRtRuns
    /\ rt_pc' = "trip_updates"
    /\ rt_runs' = rt_runs + 1
    /\ last_seed' = NoSeed /\ UNCHANGED << riskVars, auditVars, db, graph, builds, routingVars, clock, liveVars, obsVars, refresh_pc,
                    ingest_pc, cacheVars, buildVars >>

\* poll_trip_updates resumes with the fetched feed (lines 92-127), then
\* poll_service_alerts awaits its feed.
RtTripUpdates(feed) ==
    /\ LoopFree
    /\ rt_pc = "trip_updates"
    /\ trip_updates' = AfterPoll(feed, trip_updates,
                                 ClearAndUpdate(trip_updates, ParseTripUpdates(feed.entity)))
    /\ last_fetch' = Fetched("trip_updates", feed)
    /\ rt_pc' = "service_alerts"
    /\ last_seed' = NoSeed /\ UNCHANGED << riskVars, open_sessions, last_failure, escaped, db, graph, builds, routingVars, clock, service_alerts, vehicle_positions,
                    obsVars, rt_runs, refresh_pc, ingest_pc, cacheVars, buildVars >>

\* poll_service_alerts resumes (lines 133-159), then poll_vehicle_positions
\* awaits its feed.
RtServiceAlerts(feed) ==
    /\ LoopFree
    /\ rt_pc = "service_alerts"
    /\ service_alerts' = AfterPoll(feed, service_alerts,
                                   ClearAndExtend(service_alerts, ParseAlerts(feed.entity)))
    /\ last_fetch' = Fetched("service_alerts", feed)
    /\ rt_pc' = "vehicle_positions"
    /\ last_seed' = NoSeed /\ UNCHANGED << riskVars, open_sessions, last_failure, escaped, db, graph, builds, routingVars, clock, trip_updates, vehicle_positions,
                    obsVars, rt_runs, refresh_pc, ingest_pc, cacheVars, buildVars >>

\* poll_vehicle_positions resumes (lines 165-182), poll_all returns, and
\* _rt_poll_and_observe runs observe_departures (main.py lines 134-142)
\* without awaiting in between; an exception of it is logged.
RtVehiclePositionsAndObserve(feed, orc) ==
    /\ LoopFree
    /\ rt_pc = "vehicle_positions"
    /\ vehicle_positions' = AfterPoll(feed, vehicle_positions,
                                      ClearAndUpdate(vehicle_positions,
                                                     ParseVehiclePositions(feed.entity)))
    /\ last_fetch' = Fetched("vehicle_positions", feed)
    /\ LET o == ObserveDepartures(records, recorded_today, recorded_date, trip_updates,
                                  db, Now, obs_log, orc)
       IN /\ records' = o.records
          /\ recorded_today' = o.recorded_today
          /\ obs_log' = o.log
          /\ JobEnds("rt_poll_and_observe", "observe_departures", o.raised)
    /\ recorded_date' = Calendar[Now.day]
    /\ rt_pc' = "idle"
    /\ last_seed' = NoSeed /\ UNCHANGED << riskVars, db, graph, builds, routingVars, clock, trip_updates, service_alerts,
                    rt_runs, refresh_pc, ingest_pc, cacheVars, buildVars >>

\* What refresh_static_data, build_graph, seed_from_static(**kwargs) and
\* _clear_routes_cache do in a row (main.py lines 119-123 and 451-454) once
\* the download has delivered the timetable tt; an exception of the seeding
\* skips the rest.
RefreshAndReseed(tt, kwargs) ==
    /\ db' = tt
    /\ builds' = builds + 1
    /\ graph' = BuiltGraph(tt, builds + 1)
    /\ last_built_at' = Now
    /\ records' = CallSeedFromStatic(records, tt, Now.day, kwargs).records
    /\ routes_cache' = IF CallSeedFromStatic(records, tt, Now.day, kwargs).raised = ""
                       THEN << >> ELSE routes_cache

\* The scheduler starts _daily_gtfs_refresh: refresh_static_data awaits the
\* download.
DailyRefreshBegin ==
    /\ LoopFree
    /\ refresh_pc = "idle"
    /\ builds < MaxBuilds
    /\ refresh_pc' = "downloading"
    /\ open_sessions' = open_sessions \cup { "daily_gtfs_refresh" }
    /\ last_seed' = NoSeed /\ UNCHANGED << riskVars, last_fetch, last_failure, escaped, db, graph, builds, routingVars, clock, liveVars, obsVars, rt_pc, rt_runs,
                    ingest_pc, cacheVars, buildVars >>

\* The download fails: the exception is logged (lines 124-125).
DailyRefreshFail ==
    /\ LoopFree
    /\ refresh_pc = "downloading"
    /\ refresh_pc' = "idle"
    /\ JobEnds("daily_gtfs_refresh", "refresh_static_data", "DownloadError")
    /\ last_seed' = NoSeed /\ UNCHANGED << riskVars, last_fetch, db, graph, builds, routingVars, clock, liveVars, obsVars, rt_pc, rt_runs,
                    ingest_pc, cacheVars, buildVars >>

\* The download delivers tt: lines 119-127.
DailyRefreshApply(tt) ==
    /\ LoopFree
    /\ refresh_pc = "downloading"
    /\ builds < MaxBuilds
    /\ RefreshAndReseed(tt, [fill_gaps_only |-> TRUE])
    /\ refresh_pc' = "idle"
    /\ JobEnds("daily_gtfs_refresh", "seed_from_static",
               CallSeedFromStatic(records, tt, Now.day, [fill_gaps_only |-> TRUE]).raised)
    /\ last_seed' = NoSeed /\ UNCHANGED << riskVars, last_fetch, routingVars, clock, liveVars, recorded_today, recorded_date, obs_log,
                    rt_pc, rt_runs, ingest_pc, response, build_pc, build_G >>

\* The download delivers tt and refresh_static_data stores it, but
\* build_graph raises (line 120): _graph stays, the rest of the try block is
\* skipped, the exception is logged.
DailyRefreshBuildFail(tt) ==
    /\ LoopFree
    /\ refresh_pc = "downloading"
    /\ db' = tt
    /\ refresh_pc' = "idle"
    /\ JobEnds("daily_gtfs_refresh", "build_graph", "BuildError")
    /\ last_seed' = NoSeed /\ UNCHANGED << riskVars, last_fetch, graph, builds, routingVars, clock, liveVars, obsVars, rt_pc,
                    rt_runs, ingest_pc, cacheVars, buildVars >>

\* POST /ingest/gtfs-static: refresh_static_data awaits the download.
IngestBegin ==
    /\ LoopFree
    /\ ingest_pc = "idle"
    /\ builds < MaxBuilds
    /\ ingest_pc' = "downloading"
    /\ last_seed' = NoSeed /\ UNCHANGED << riskVars, auditVars, db, graph, builds, routingVars, clock, liveVars, obsVars, rt_pc, rt_runs,
                    refresh_pc, cacheVars, buildVars >>

\* The download fails: the request ends with the exception.
IngestFail ==
    /\ LoopFree
    /\ ingest_pc = "downloading"
    /\ ingest_pc' = "idle"
    /\ last_seed' = NoSeed /\ UNCHANGED << riskVars, auditVars, db, graph, builds, routingVars, clock, liveVars, obsVars, rt_pc, rt_runs,
                    refresh_pc, cacheVars, buildVars >>

\* The download delivers tt: lines 451-461.
IngestApply(tt) ==
    /\ LoopFree
    /\ ingest_pc = "downloading"
    /\ builds < MaxBuilds
    /\ RefreshAndReseed(tt, [fill_gaps_only |-> FALSE])
    /\ ingest_pc' = "idle"
    /\ last_seed' = NoSeed /\ UNCHANGED << riskVars, auditVars, routingVars, clock, liveVars, recorded_today, recorded_date, obs_log,
                    rt_pc, rt_runs, refresh_pc, response, build_pc, build_G >>

\* A variant of the handler without its except clause: any error is a 500.
SeedStatusUncaught(raised) == IF raised = "" THEN 200 ELSE 500

\* trigger_reliability_seed, lines 477-485: a RuntimeError becomes a 409,
\* any other exception a 500.
SeedStatus(raised) ==
    IF raised = "" THEN 200 ELSE IF raised = "RuntimeError" THEN 409 ELSE 500

\* The call repeats the one answered in the step before: that one returned,
\* and the timetable, the date and window_days are those of this call (the
\* records are as that call left them, nothing having run in between).
SeedRepeats(window_days) ==
    /\ last_seed.called
    /\ last_seed.raised = ""
    /\ last_seed.window_days = window_days
    /\ last_seed.day = Now.day
    /\ last_seed.trips = db.trips

\* POST /ingest/reliability-seed?window_days=n (lines 464-485).
TriggerReliabilitySeed(window_days) ==
    LET call == CallSeedFromStatic(records, db, Now.day, [window_days |-> window_days])
    IN /\ LoopFree
       /\ records' = call.records
       /\ last_seed' =
             [called |-> TRUE, repeats |-> SeedRepeats(window_days), window_days |-> window_days,
              day |-> Now.day, trips |-> db.trips, prev_written |-> last_seed.written,
              raised |-> call.raised, status |-> SeedStatus(call.raised),
              written |-> call.written, unchanged |-> (call.records = records)]
       /\ UNCHANGED << riskVars, auditVars, db, graph, builds, routingVars, clock, liveVars,
                       recorded_today, recorded_date, obs_log, jobVars, cacheVars, buildVars >>

InitReliability ==
    /\ db \in JobTimetables
    /\ builds = 1
    /\ graph = BuiltGraph(db, 1)
    /\ RoutingIdle
    /\ ServiceIdle

NextReliability ==
    \/ TickSameDay
    \/ RtPollBegin
    \/ \E feed \in ReliabilityFeeds : RtTripUpdates(feed)
    \/ RtServiceAlerts(NoFeed)
    \/ \E orc \in ObserveOracles : RtVehiclePositionsAndObserve(NoFeed, orc)
    \/ DailyRefreshBegin
    \/ DailyRefreshFail
    \/ \E tt \in JobTimetables : DailyRefreshApply(tt)
    \/ IngestBegin
    \/ IngestFail
    \/ \E tt \in JobTimetables : IngestApply(tt)
    \/ TriggerReliabilitySeed(DEFAULT_WINDOW_DAYS)

SpecReliability == InitReliability /\ [][NextReliability]_vars


\* The two scheduled jobs with every failure their steps can meet.
InitJobs ==
    /\ db \in JobTimetables
    /\ builds = 1
    /\ graph = BuiltGraph(db, 1)
    /\ RoutingIdle
    /\ ServiceIdle

NextJobs ==
    \/ RtPollBegin
    \/ \E feed \in ReliabilityFeeds : RtTripUpdates(feed)
    \/ RtServiceAlerts(NoFeed)
    \/ \E orc \in ObserveOracles : RtVehiclePositionsAndObserve(NoFeed, orc)
    \/ DailyRefreshBegin
    \/ DailyRefreshFail
    \/ \E tt \in JobTimetables : DailyRefreshBuildFail(tt)
    \/ \E tt \in JobTimetables : DailyRefreshApply(tt)
    \/ TriggerReliabilitySeed(DEFAULT_WINDOW_DAYS)

SpecJobs == InitJobs /\ [][NextJobs]_vars

(***************************************************************************)
(* GET /routes and its result cache: api/main.py                           *)
(***************************************************************************)

\* _routes_cache_key: the stops, the date and the time as HH:MM
RoutesCacheKey(origin, destination, departure_dt) ==
    << origin, destination, departure_dt.date, << departure_dt.time[1], departure_dt.time[2] >> >>

\* A variant of the lookup without the check of the age.
CacheHitIgnoringAge(cache, key, now) == key \in DOMAIN cache

\* Does _get_cached_routes find an entry that has not expired?
CacheHit(cache, key, now) ==
    key \in DOMAIN cache /\ ~(DtSeconds(now) - DtSeconds(cache[key].cached_at) > ROUTES_CACHE_TTL)

\* The cache when _get_cached_routes returns: an expired entry is deleted.
AfterLookup(cache, key, now) ==
    IF key \in DOMAIN cache /\ ~CacheHit(cache, key, now)
    THEN [k \in DOMAIN cache \ { key } |-> cache[k]]
    ELSE cache

\* _store_cached_routes
StoreCachedRoutes(cache, key, rs, now) == Put(cache, key, [routes |-> rs, cached_at |-> now])

\* The requests GET /routes is called with.
RouteRequests ==
    [origin : {"A"}, destination : {"C", "Z"},
     departure_dt : [date : {Day1}, time : {<<8, 0, 0>>, <<8, 0, 30>>}],
     max_routes : {MAX_ROUTES}]

\* The timetables a static feed may hold in the model of the cache.
CacheTimetables ==
    { [stops |-> StopIds, trips |-> ts]
        : ts \in SUBSET { t \in TripPool : t.trip_id \in {"T1", "T3"} } }

\* get_routes with a cache hit (lines 355-357, 372-434): the cached legs are
\* scored and returned.
GetRoutesCached(req) ==
    /\ LoopFree
    /\ CacheHit(routes_cache, RoutesCacheKey(req.origin, req.destination, req.departure_dt), Now)
    /\ response' = [status |-> 200,
                    routes |-> routes_cache[RoutesCacheKey(req.origin, req.destination,
                                                           req.departure_dt)].routes,
                    from_cache |-> TRUE,
                    scored |-> ScoreRoutes(
                        routes_cache[RoutesCacheKey(req.origin, req.destination,
                                                    req.departure_dt)].routes,
                        Now, records, trip_updates, service_alerts, vehicle_positions)]
    /\ last_seed' = NoSeed /\ UNCHANGED << riskVars, auditVars, db, graph, builds, routingVars, clock, liveVars, obsVars, jobVars,
                    routes_cache, buildVars >>

\* get_routes without one (lines 355-364): find_routes is called.
GetRoutesCompute(req) ==
    /\ LoopFree
    /\ ~CacheHit(routes_cache, RoutesCacheKey(req.origin, req.destination, req.departure_dt), Now)
    /\ routes_cache' = AfterLookup(routes_cache,
                                   RoutesCacheKey(req.origin, req.destination, req.departure_dt),
                                   Now)
    /\ FindRoutesCall(req)
    /\ last_seed' = NoSeed /\ UNCHANGED << riskVars, auditVars, db, graph, builds, clock, liveVars, obsVars, jobVars, response, buildVars >>

\* find_routes has returned or raised (lines 365-413): a non-empty result is
\* stored, then scored; ValueError and an empty result are answered 404, any
\* other exception 500.
GetRoutesFinish ==
    /\ pc \in {"done", "raised"}
    /\ routes_cache' =
          IF pc = "done" /\ routes # << >>
          THEN StoreCachedRoutes(routes_cache,
                                 RoutesCacheKey(request.origin, request.destination,
                                                request.departure_dt),
                                 routes, Now)
          ELSE routes_cache
    /\ response' = [status |-> IF pc = "raised"
                               THEN (IF error = "ValueError" THEN 404 ELSE 500)
                               ELSE IF routes = << >> THEN 404 ELSE 200,
                    routes |-> IF pc = "done" THEN routes ELSE << >>,
                    from_cache |-> FALSE,
                    scored |-> IF pc = "done"
                               THEN ScoreRoutes(routes, Now, records, trip_updates,
                                                service_alerts, vehicle_positions)
                               ELSE << >>]
    /\ RoutingReset
    /\ last_seed' = NoSeed /\ UNCHANGED << riskVars, auditVars, db, graph, builds, clock, liveVars, obsVars, jobVars, buildVars >>

InitCache ==
    /\ db \in CacheTimetables
    /\ builds = 1
    /\ graph = BuiltGraph(db, 1)
    /\ RoutingIdle
    /\ ServiceIdle

NextCache ==
    \/ Tick
    \/ \E req \in RouteRequests : GetRoutesCached(req)
    \/ \E req \in RouteRequests : GetRoutesCompute(req)
    \/ MainNoPath
    \/ MainLoopEnd
    \/ \E node_path \in raw_remaining, orc \in Oracles : MainLoopIter(node_path, orc)
    \/ \E orc \in Oracles : FillIter(orc)
    \/ FillRoundEnd
    \/ GetRoutesFinish
    \/ DailyRefreshBegin
    \/ DailyRefreshFail
    \/ \E tt \in CacheTimetables : DailyRefreshApply(tt)
    \/ IngestBegin
    \/ IngestFail
    \/ \E tt \in CacheTimetables : IngestApply(tt)

SpecCache == InitCache /\ [][NextCache]_vars

(***************************************************************************)
(* build_graph step by step, alongside find_routes: graph/builder.py       *)
(***************************************************************************)

\* The timetables and the requests of this model.
SnapshotTimetables ==
    { [stops |-> StopIds, trips |-> ts]
        : ts \in SUBSET { t \in TripPool : t.trip_id \in {"T1", "T3"} } }
SnapshotRequests ==
    [origin : {"A"}, destination : {"C"},
     departure_dt : [date : {Day1}, time : {<<7, 55, 0>>}], max_routes : {MaxK}]

\* A refresh has stored the timetable tt; build_graph starts: line 55.
BuildBegin(tt) ==
    /\ build_pc = "idle"
    /\ builds < MaxBuilds
    /\ db' = tt
    /\ builds' = builds + 1
    /\ build_G' = NewGraph(builds + 1)
    /\ build_pc' = "stops"
    /\ last_seed' = NoSeed /\ UNCHANGED << last_built_at, riskVars, auditVars, graph, routingVars, clock, liveVars, obsVars, jobVars, cacheVars >>

\* lines 57-58
BuildAddStopNodes ==
    /\ build_pc = "stops"
    /\ build_G' = AddStopNodes(build_G, db.stops)
    /\ build_pc' = "trips"
    /\ last_seed' = NoSeed /\ UNCHANGED << last_built_at, riskVars, auditVars, db, graph, builds, routingVars, clock, liveVars, obsVars, jobVars,
                    cacheVars >>

\* line 59
BuildAddTripEdges ==
    /\ build_pc = "trips"
    /\ build_G' = AddTripEdges(build_G, db.trips)
    /\ build_pc' = "walks"
    /\ last_seed' = NoSeed /\ UNCHANGED << last_built_at, riskVars, auditVars, db, graph, builds, routingVars, clock, liveVars, obsVars, jobVars,
                    cacheVars >>

\* line 60
BuildAddWalkEdges ==
    /\ build_pc = "walks"
    /\ build_G' = AddWalkEdges(build_G, db.stops)
    /\ build_pc' = "swap"
    /\ last_seed' = NoSeed /\ UNCHANGED << last_built_at, riskVars, auditVars, db, graph, builds, routingVars, clock, liveVars, obsVars, jobVars,
                    cacheVars >>

\* A variant of the failure that has published the unfinished graph.
AfterBuildFailurePublishing(cached, local) == local

\* build_graph raises at lines 57-60: _graph and _last_built_at are assigned
\* after them, so the cached graph is the one there was.
AfterBuildFailure(cached, local) == cached

\* build_graph raises in the query of the stops or in one of the three
\* passes (lines 57-60): its local G is dropped.
BuildFail ==
    /\ build_pc \in {"stops", "trips", "walks"}
    /\ graph' = AfterBuildFailure(graph, build_G)
    /\ last_built_at' = last_built_at
    /\ build_G' = NoGraph
    /\ build_pc' = "idle"
    /\ last_seed' = NoSeed /\ UNCHANGED << riskVars, auditVars, db, builds, routingVars, clock, liveVars, obsVars, jobVars, cacheVars >>

\* lines 62-63: _graph = G; _last_built_at = datetime.utcnow()
BuildSwap ==
    /\ build_pc = "swap"
    /\ graph' = build_G
    /\ last_built_at' = Now
    /\ build_G' = NoGraph
    /\ build_pc' = "idle"
    /\ last_seed' = NoSeed /\ UNCHANGED << riskVars, auditVars, db, builds, routingVars, clock, liveVars, obsVars, jobVars, cacheVars >>

\* After startup: the build of lifespan() has succeeded, or it has failed
\* and there is no graph.
InitSnapshot ==
    /\ db \in SnapshotTimetables
    /\ builds \in {0, 1}
    /\ graph = IF builds = 0 THEN NoGraph ELSE BuiltGraph(db, 1)
    /\ RoutingIdle
    /\ ServiceIdle

NextSnapshot ==
    \/ \E req \in SnapshotRequests : FindRoutesEnter(req)
    \/ FindRoutesReturn
    \/ MainNoPath
    \/ MainLoopEnd
    \/ \E node_path \in raw_remaining, orc \in Oracles : MainLoopIter(node_path, orc)
    \/ \E orc \in Oracles : FillIter(orc)
    \/ FillRoundEnd
    \/ \E tt \in SnapshotTimetables : BuildBegin(tt)
    \/ BuildAddStopNodes
    \/ BuildAddTripEdges
    \/ BuildAddWalkEdges
    \/ BuildSwap
    \/ BuildFail
    \/ Tick

SpecSnapshot == InitSnapshot /\ [][NextSnapshot]_vars

(***************************************************************************)
(* The live state and its readers: ingestion/gtfs_realtime.py              *)
(***************************************************************************)

\* The alert and vehicle feeds of this model.
AlertFeeds ==
    { NoFeed,
      Feed(<< >>),
      Feed(<< AlertEntity("a1", "Detour", << [route_id |-> "R2", stop_id |-> ""] >>) >>),
      Feed(<< AlertEntity("a2", "Stop closed", << [route_id |-> "", stop_id |-> "B"] >>),
              AlertEntity("a1", "Detour", << [route_id |-> "R2", stop_id |-> ""] >>) >>) }
VehicleFeeds ==
    { NoFeed,
      Feed(<< VehicleEntity("T4", 436, 100) >>),
      Feed(<< VehicleEntity("T5", 437, 130), VehicleEntity("T5", 438, 160) >>) }

InitLive ==
    /\ db \in { tt \in ReliabilityTimetables : Cardinality(tt.trips) = 2 }
    /\ builds = 1
    /\ graph = BuiltGraph(db, 1)
    /\ RoutingIdle
    /\ ServiceIdle

NextLive ==
    \/ TickSameDay
    \/ RtPollBegin
    \/ \E feed \in TripUpdateFeeds : RtTripUpdates(feed)
    \/ \E feed \in AlertFeeds : RtServiceAlerts(feed)
    \/ \E feed \in VehicleFeeds, orc \in ObserveOracles : RtVehiclePositionsAndObserve(feed, orc)
    \/ TriggerReliabilitySeed(DEFAULT_WINDOW_DAYS)

SpecLive == InitLive /\ [][NextLive]_vars

(***************************************************************************)
(* compute_live_risk as a function of its arguments and the live state     *)
(***************************************************************************)

\* The arguments compute_live_risk is called with: a Monday morning and a
\* Saturday night, departures within and beyond 15 minutes and after 22:00,
\* reliabilities with few and with many decimals.
RiskArgs ==
    [route_id : {"R1", "R2"}, stop_id : {"A", "B"}, trip_id : {"T4", "T5"},
     departure_time_str : { <<8, 40, 0>>, <<9, 0, 0>>, <<22, 30, 0>> },
     query_dt : { DateTime(1, 8 * 3600 + 30 * 60), DateTime(6, 22 * 3600 + 20 * 60) },
     historical_reliability : { Rat(0, 1), Rat(9, 16), Rat(4, 5), Rat(6, 7), Rat(1, 1) }]

\* The call of compute_live_risk with the arguments risk_args.
ComputeLiveRiskCall ==
    /\ risk = NoRisk
    /\ risk' = ComputeLiveRisk(risk_args.route_id, risk_args.stop_id, risk_args.trip_id,
                               risk_args.departure_time_str, risk_args.query_dt,
                               risk_args.historical_reliability,
                               trip_updates, service_alerts, vehicle_positions)
    /\ UNCHANGED << last_seed, db, graph, builds, routingVars, clock, liveVars, obsVars, jobVars,
                    cacheVars, buildVars, auditVars, risk_args >>

\* The live state is that of any completed poll, the arguments are any of
\* RiskArgs.
InitRisk ==
    /\ db \in { tt \in ReliabilityTimetables : Cardinality(tt.trips) = 2 }
    /\ builds = 1
    /\ graph = BuiltGraph(db, 1)
    /\ RoutingIdle
    /\ clock = 1
    /\ trip_updates \in { ParseTripUpdates(f.entity) : f \in { g \in TripUpdateFeeds : g.ok } }
    /\ service_alerts \in { ParseAlerts(f.entity) : f \in { g \in AlertFeeds : g.ok } }
    /\ vehicle_positions
          \in { ParseVehiclePositions(f.entity) : f \in { g \in VehicleFeeds : g.ok } }
    /\ records = << >>
    /\ recorded_today = {}
    /\ recorded_date = ""
    /\ obs_log = << >>
    /\ rt_pc = "idle"
    /\ rt_runs = 0
    /\ refresh_pc = "idle"
    /\ ingest_pc = "idle"
    /\ routes_cache = << >>
    /\ response = NoResponse
    /\ build_pc = "idle"
    /\ build_G = NoGraph
    /\ last_built_at = IF graph = NoGraph THEN NeverBuilt ELSE [day |-> 1, secs |-> 0]
    /\ last_fetch = NoFetch
    /\ open_sessions = {}
    /\ last_failure = NoFailure
    /\ escaped = {}
    /\ last_seed = NoSeed
    /\ risk_args \in RiskArgs
    /\ risk = NoRisk

NextRisk == ComputeLiveRiskCall

SpecRisk == InitRisk /\ [][NextRisk]_vars

(***************************************************************************)
(* GET /routes with its scoring, next to the live polls                    *)
(***************************************************************************)

\* The requests of this model: from B to E on Day1, trip T4 of route R2.
ScoringRequests ==
    [origin : {"B"}, destination : {"E"},
     departure_dt : [date : {Day1}, time : {<<8, 20, 0>>}],
     max_routes : {MAX_ROUTES}]

InitScoring ==
    /\ db \in { tt \in ReliabilityTimetables : Cardinality(tt.trips) = 2 }
    /\ builds = 1
    /\ graph = BuiltGraph(db, 1)
    /\ RoutingIdle
    /\ ServiceIdle

NextScoring ==
    \/ \E req \in ScoringRequests : GetRoutesCached(req)
    \/ \E req \in ScoringRequests : GetRoutesCompute(req)
    \/ MainLoopEnd
    \/ \E node_path \in raw_remaining, orc \in Oracles : MainLoopIter(node_path, orc)
    \/ \E orc \in Oracles : FillIter(orc)
    \/ FillRoundEnd
    \/ GetRoutesFinish
    \/ RtPollBegin
    \/ \E feed \in TripUpdateFeeds : RtTripUpdates(feed)
    \/ \E feed \in AlertFeeds : RtServiceAlerts(feed)
    \/ \E feed \in VehicleFeeds, orc \in { o \in ObserveOracles : o.fail_at = 0 } :
          RtVehiclePositionsAndObserve(feed, orc)

SpecScoring == InitScoring /\ [][NextScoring]_vars

(***************************************************************************)
(* build_graph as a function of the timetable                              *)
(***************************************************************************)

\* The timetables of this model: up to MaxTrips trips of the pool and of
\* the trip past midnight.
BuilderTimetables ==
    { [stops |-> StopIds, trips |-> ts]
        : ts \in { x \in SUBSET (TripPool \cup { MidnightTrip }) : Cardinality(x) <= MaxTrips } }
    \cup { [stops |-> ss, trips |-> {}] : ss \in SUBSET WalkStopIds }

\* Nothing is built yet.
InitBuilder ==
    /\ db \in BuilderTimetables
    /\ builds = 0
    /\ graph = NoGraph
    /\ RoutingIdle
    /\ ServiceIdle

NextBuilder ==
    \/ BuildBegin(db)
    \/ BuildAddStopNodes
    \/ BuildAddTripEdges
    \/ BuildAddWalkEdges
    \/ BuildSwap

SpecBuilder == InitBuilder /\ [][NextBuilder]_vars

(***************************************************************************)
(* The reliability seed endpoint beside the observation job                *)
(***************************************************************************)

\* The timetables of this model: any of T4, T5 (service day 1) and T6
\* (service day 2), or no trip at all.
SeedTimetables ==
    { [stops |-> StopIds, trips |-> ts]
        : ts \in SUBSET { t \in TripPool : t.trip_id \in {"T4", "T5", "T6"} } }

InitSeed ==
    /\ db \in SeedTimetables
    /\ builds = 1
    /\ graph = BuiltGraph(db, 1)
    /\ RoutingIdle
    /\ ServiceIdle

NextSeed ==
    \/ Tick
    \/ \E window_days \in {1, DEFAULT_WINDOW_DAYS} : TriggerReliabilitySeed(window_days)
    \/ RtPollBegin
    \/ \E feed \in ReliabilityFeeds : RtTripUpdates(feed)
    \/ RtServiceAlerts(NoFeed)
    \/ \E orc \in { o \in ObserveOracles : o.fail_at = 0 } : RtVehiclePositionsAndObserve(NoFeed, orc)

SpecSeed == InitSeed /\ [][NextSeed]_vars

(***************************************************************************)
(* observe_departures over feeds with a cancelled trip, a delayed trip     *)
(* that has not left yet at the first instant, and a trip without delay    *)
(* overrides; the timetable may lack the trips of the feed.                *)
(***************************************************************************)
ObserveTimetables ==
    { [stops |-> StopIds, trips |-> ts]
        : ts \in SUBSET { t \in TripPool : t.trip_id \in {"T2", "T4"} } }

ObserveFeeds ==
    { NoFeed,
      Feed(<< CancelledTrip("T4") >>),
      Feed(<< DelayedTrip("T2", 60), TripUpdateEntity("T4", "R2", 0, << >>) >>) }

InitObserve ==
    /\ db \in ObserveTimetables
    /\ builds = 1
    /\ graph = BuiltGraph(db, 1)
    /\ RoutingIdle
    /\ ServiceIdle

NextObserve ==
    \/ Tick
    \/ TriggerReliabilitySeed(DEFAULT_WINDOW_DAYS)
    \/ RtPollBegin
    \/ \E feed \in ObserveFeeds : RtTripUpdates(feed)
    \/ RtServiceAlerts(NoFeed)
    \/ \E orc \in ObserveOracles : RtVehiclePositionsAndObserve(NoFeed, orc)

SpecObserve == InitObserve /\ [][NextObserve]_vars

(***************************************************************************)
(* find_routes over timetables with a loop trip, a trip that calls at the  *)
(* stops in another order, a trip at the end of the day and two routes     *)
(* that tie on one stop pair.  Along every trip the times do not decrease  *)
(* with stop_sequence.                                                     *)
(***************************************************************************)
SchedulePool ==
    { LoopTrip, OutOfOrderTrip, LateTrip, TieTrip, AfterWalkTrip,
      FeedTrip("T1"), FeedTrip("T2"), FeedTrip("T4") }

ScheduleTimetables ==
    { [stops |-> StopIds, trips |-> ts]
        : ts \in { x \in SUBSET SchedulePool : Cardinality(x) <= MaxTrips } }

ScheduleRequests ==
    [origin : {"A"}, destination : {"B", "C", "E"},
     departure_dt : [date : {Day1}, time : {<<7, 55, 0>>, <<8, 0, 1>>}],
     max_routes : {1, MAX_ROUTES}]

InitSchedule ==
    /\ db \in ScheduleTimetables
    /\ builds = 1
    /\ graph = BuiltGraph(db, 1)
    /\ RoutingIdle
    /\ ServiceIdle

NextSchedule ==
    \/ \E req \in ScheduleRequests : FindRoutesEnter(req)
    \/ FindRoutesReturn
    \/ MainNoPath
    \/ MainLoopEnd
    \/ \E node_path \in raw_remaining, orc \in Oracles : MainLoopIter(node_path, orc)
    \/ \E orc \in Oracles : FillIter(orc)
    \/ FillRoundEnd

SpecSchedule == InitSchedule /\ [][NextSchedule]_vars

(***************************************************************************)
(* Properties of find_routes                                               *)
(***************************************************************************)

\* C1: at every point of a find_routes call, and so in the list it returns,
\* the routes collected number at most max_routes, whether they were added
\* by the main loop or by the later-departure fill.
C1_AtMostMaxRoutes == Len(routes) <= request.max_routes

\* A call has returned max_routes >= 2 routes, some of them added by the
\* fill (only the main loop adds to candidate_paths).
C1_Witness ==
    /\ pc = "done"
    /\ request.max_routes >= 2
    /\ Len(routes) = request.max_routes
    /\ Len(routes) > Len(candidate_paths)

\* C2: no two collected routes have the same signature, in the main loop
\* and in the fill alike, and a route once collected is never replaced or
\* dropped during the call: of two candidates with the same signature the
\* first one met is the one kept.
C2_UniqueSignatures ==
    [][ /\ \A i, j \in 1..Len(routes') :
              i # j => RouteSignature(routes'[i]) # RouteSignature(routes'[j])
        /\ pc' # "idle" =>
              /\ Len(routes') >= Len(routes)
              /\ \A i \in 1..Len(routes) : routes'[i] = routes[i] ]_vars

\* A call that rejected a duplicate has returned two routes, the second
\* added by the fill.
C2_Witness ==
    /\ pc = "done"
    /\ duplicates >= 1
    /\ Len(routes) >= 2
    /\ Len(routes) > Len(candidate_paths)

\* C3: every collected route has at least one trip leg, at most
\* MAX_TRANSFERS changes of route_id between consecutive trip legs, and at
\* each such change at least MIN_TRANSFER_MINUTES * 60 seconds between the
\* arrival of the one leg and the departure of the next (exactly that many
\* is enough).
C3_RoutesPassFilters ==
    \A k \in 1..Len(routes) :
        LET tl == SelectSeq(routes[k], LAMBDA l : l.kind = "trip")
            changes == { i \in 2..Len(tl) : tl[i].route_id # tl[i - 1].route_id }
        IN /\ Len(tl) >= 1
           /\ Cardinality(changes) <= MAX_TRANSFERS
           /\ \A i \in changes :
                 HmsToSeconds(tl[i].departure_time) - HmsToSeconds(tl[i - 1].arrival_time)
                    >= MIN_TRANSFER_MINUTES * 60

\* A returned route changes route with a gap of exactly the minimum.
C3_Witness ==
    /\ pc = "done"
    /\ \E k \in 1..Len(routes) :
          LET tl == SelectSeq(routes[k], LAMBDA l : l.kind = "trip")
          IN \E i \in { n \in 2..Len(tl) : tl[n].route_id # tl[n - 1].route_id } :
                HmsToSeconds(tl[i].departure_time) - HmsToSeconds(tl[i - 1].arrival_time)
                    = MIN_TRANSFER_MINUTES * 60

(***************************************************************************)
(* Properties of the reliability records                                   *)
(***************************************************************************)

\* C4: observe_departures is idempotent per trip and day: whatever the runs
\* before it did, and also when a run ended with an exception and the next
\* poll tick tried again, no departure (trip_id, stop) is written to the
\* reliability records more than once on one day.
C4_NoDoubleCount ==
    \A k \in DOMAIN obs_log : obs_log[k] <= 1

\* C5: in every reliability record the observed and the cancelled
\* departures together are at most the scheduled ones, and all four
\* counters are non-negative, after any sequence of seedings and
\* observations with any delays.
C5_CountersSane ==
    \A k \in DOMAIN records :
        /\ records[k].observed_departures + records[k].cancellation_count
              <= records[k].scheduled_departures
        /\ records[k].scheduled_departures >= 0
        /\ records[k].observed_departures >= 0
        /\ records[k].cancellation_count >= 0
        /\ records[k].total_delay_seconds >= 0

\* C6: the scheduled, observed and cancelled counts of a record never go
\* down, and no record disappears, except in a step of the manual
\* reliability seed or of the manual ingest; the daily refresh and the
\* recording of observations never lower them.
C6_CountersMonotone ==
    [][ \/ \A k \in DOMAIN records :
              /\ k \in DOMAIN records'
              /\ records'[k].scheduled_departures >= records[k].scheduled_departures
              /\ records'[k].observed_departures >= records[k].observed_departures
              /\ records'[k].cancellation_count >= records[k].cancellation_count
        \/ \E window_days \in {1, DEFAULT_WINDOW_DAYS} : TriggerReliabilitySeed(window_days)
        \/ \E tt \in ReliabilityTimetables : IngestApply(tt) ]_vars

\* Observations have been recorded on top of seeded records and the
\* timetable has been refreshed since startup.
C6_Witness ==
    /\ builds >= 2
    /\ obs_log # << >>
    /\ \E k \in DOMAIN records :
          /\ records[k].cancellation_count >= 1
          /\ records[k].scheduled_departures > SeedRecord(k[3], 1).scheduled_departures

\* C7: the reseeding step of the daily refresh fills gaps only: a record
\* with observed_departures > 0 keeps all its counters, and every
\* (route, stop, bucket) of the refreshed timetable without such a record
\* has its synthetic prior afterwards.
C7_DailyReseedFillsGaps ==
    [][ (\E tt \in ReliabilityTimetables : DailyRefreshApply(tt)) =>
          /\ \A k \in DOMAIN records :
                records[k].observed_departures > 0 =>
                    k \in DOMAIN records' /\ records'[k] = records[k]
          /\ db'.trips # {} =>
                \A k \in DOMAIN SeedCounts(db', WindowStart(db', Now.day),
                                           WindowEnd(db', Now.day, DEFAULT_WINDOW_DAYS)) :
                    (k \notin DOMAIN records \/ records[k].observed_departures = 0) =>
                        /\ k \in DOMAIN records'
                        /\ records'[k] =
                             SeedRecord(k[3],
                                 SeedCounts(db', WindowStart(db', Now.day),
                                            WindowEnd(db', Now.day, DEFAULT_WINDOW_DAYS))[k])
      ]_vars


(***************************************************************************)
(* Properties of the result cache                                          *)
(***************************************************************************)

\* C8: whenever a static refresh or a manual ingest has replaced the
\* timetable and the graph, the result cache is empty afterwards.
C8_CacheInvalidated ==
    [][ graph'.id # graph.id => routes_cache' = << >> ]_vars

(***************************************************************************)
(* Properties of the graph cache                                           *)
(***************************************************************************)

\* C9: the module-level graph is never a graph under construction: it is
\* absent or the complete graph of a timetable, so get_graph never returns
\* a partial graph; and all the graph reads of one find_routes call, the
\* fill included, are reads of the one graph object the call took when it
\* started, whatever has been swapped in since.
C9_OneCompleteSnapshot ==
    /\ graph.id # 0 => \E tt \in SnapshotTimetables : graph = BuiltGraph(tt, graph.id)
    /\ pc \in {"main", "fill", "done"} =>
          /\ \E tt \in SnapshotTimetables : G = BuiltGraph(tt, G.id)
          /\ used_graphs = { G.id }

\* A call is in its fill phase on the graph it started with while a graph
\* built later is the cached one.
C9_Witness ==
    /\ pc = "fill"
    /\ fill_i > 1
    /\ graph.id > G.id
    /\ graph.edges # G.edges

(***************************************************************************)
(* Properties of the live state                                            *)
(***************************************************************************)

\* C10: at every point where a reader (compute_live_risk, observe_departures)
\* can run, each of trip_updates, service_alerts and vehicle_positions is
\* empty as at startup or holds exactly the contents of one fetched feed:
\* for trip_updates, one state per trip_id of the feed, made from the last
\* entity of that trip_id; never a map emptied halfway through a swap or a
\* mixture of two polls.
C10_CompleteMaps ==
    /\ \/ trip_updates = << >>
       \/ \E feed \in { f \in TripUpdateFeeds : f.ok } :
             /\ DictKeys(trip_updates) = { feed.entity[n].trip_id : n \in 1..Len(feed.entity) }
             /\ Len(trip_updates) = Cardinality(DictKeys(trip_updates))
             /\ \A n \in 1..Len(feed.entity) :
                   (\A later \in (n + 1)..Len(feed.entity) :
                        feed.entity[later].trip_id # feed.entity[n].trip_id)
                      => DictGet(trip_updates, feed.entity[n].trip_id)
                            = TripUpdateState(feed.entity[n])
    /\ \/ service_alerts = << >>
       \/ \E feed \in { f \in AlertFeeds : f.ok } :
             /\ Len(service_alerts) = Len(feed.entity)
             /\ \A n \in 1..Len(feed.entity) : service_alerts[n].alert_id = feed.entity[n].id
    /\ \/ vehicle_positions = << >>
       \/ \E feed \in { f \in VehicleFeeds : f.ok } :
             /\ DictKeys(vehicle_positions) = { feed.entity[n].trip_id : n \in 1..Len(feed.entity) }
             /\ Len(vehicle_positions) = Cardinality(DictKeys(vehicle_positions))
             /\ \A n \in 1..Len(feed.entity) :
                   (\A later \in (n + 1)..Len(feed.entity) :
                        feed.entity[later].trip_id # feed.entity[n].trip_id)
                      => DictGet(vehicle_positions, feed.entity[n].trip_id).timestamp
                            = feed.entity[n].timestamp

\* The second poll has just swapped trip_updates; all three maps are
\* non-empty and observe_departures has read trip_updates in the first.
C10_Witness ==
    /\ rt_runs = 2
    /\ rt_pc = "service_alerts"
    /\ Len(trip_updates) = 2
    /\ service_alerts # << >>
    /\ vehicle_positions # << >>
    /\ recorded_today # {}

(***************************************************************************)
(* Properties of the failure handling of the polls and the jobs            *)
(***************************************************************************)

\* C11: a poll step whose fetch has failed (_fetch_feed returned None)
\* leaves the map fed by that feed exactly as it was, and the poll goes on
\* to its next step instead of ending with an exception.
C11_FailedFetchNoChange ==
    [][ /\ \A feed \in TripUpdateFeeds :
              (~feed.ok /\ RtTripUpdates(feed))
                 => (trip_updates' = trip_updates /\ rt_pc' = "service_alerts")
        /\ \A feed \in AlertFeeds :
              (~feed.ok /\ RtServiceAlerts(feed))
                 => (service_alerts' = service_alerts /\ rt_pc' = "vehicle_positions")
        /\ \A feed \in VehicleFeeds, orc \in ObserveOracles :
              (~feed.ok /\ RtVehiclePositionsAndObserve(feed, orc))
                 => (vehicle_positions' = vehicle_positions /\ rt_pc' = "idle"
                       /\ escaped' = escaped) ]_vars

\* The fetch of the vehicle positions has just failed in the second poll,
\* with all three maps filled by the first.
C11_Witness ==
    /\ rt_runs = 2
    /\ rt_pc = "idle"
    /\ last_fetch = [map |-> "vehicle_positions", ok |-> FALSE]
    /\ trip_updates # << >>
    /\ service_alerts # << >>
    /\ vehicle_positions # << >>

\* C12: no exception leaves a scheduled job, and a job that is not running
\* holds no open database session, whichever of its steps has failed; the
\* job is idle again, so that its next tick can start.
C12_JobsContainFailures ==
    /\ escaped = {}
    /\ refresh_pc = "idle" => "daily_gtfs_refresh" \notin open_sessions
    /\ "rt_poll_and_observe" \notin open_sessions
    /\ open_sessions \subseteq { "daily_gtfs_refresh" }

\* The graph rebuild of the daily refresh has failed, an observation run
\* has written a record, and both jobs are ready for their next tick.
C12_Witness ==
    /\ last_failure = Failure("daily_gtfs_refresh", "build_graph")
    /\ refresh_pc = "idle"
    /\ rt_pc = "idle"
    /\ rt_runs >= 1
    /\ \E k \in DOMAIN obs_log : obs_log[k] >= 1
    /\ open_sessions = {}

(***************************************************************************)
(* Properties of the risk scoring                                          *)
(***************************************************************************)

\* C15: when the live trip_updates hold the trip of the call as cancelled,
\* compute_live_risk returns risk_score 1.0, label High, is_cancelled and
\* one modifier, whatever the other arguments and the rest of the live
\* state are.
C15_CancellationShortCircuits ==
    (/\ risk # NoRisk
     /\ \E n \in 1..Len(trip_updates) :
           trip_updates[n].trip_id = risk_args.trip_id /\ trip_updates[n].is_cancelled)
       => /\ risk.risk_score = 1000
          /\ risk.risk_label = "High"
          /\ risk.is_cancelled
          /\ Len(risk.modifiers) = 1

\* A cancelled trip scored with perfect reliability on a Monday morning,
\* with alerts on its route and stop.
C15_Witness ==
    /\ risk.is_cancelled
    /\ risk_args.historical_reliability = Rat(1, 1)
    /\ risk_args.route_id = "R2" /\ risk_args.stop_id = "B"
    /\ Len(service_alerts) = 2
    /\ Weekday(risk_args.query_dt.day) = 0

\* C16 as stated: for a trip that is not cancelled, the returned risk is
\* exactly min(1.0, (1 - hist) + adjustment), with 0.10 for every matching
\* alert, 0.15 for a cancellation on the route, 0.08 for a departure within
\* 15 minutes without a vehicle position, 0.05 for a departure from 22:00
\* on and 0.03 at the weekend; and it lies within [0, 1].
C16_RiskIsCappedSum ==
    (risk # NoRisk /\ ~risk.is_cancelled) =>
       LET h == risk_args.historical_reliability
           dep == HmsToSeconds(risk_args.departure_time_str)
           adj == 100 * Cardinality({ n \in 1..Len(service_alerts) :
                         \/ \E k \in 1..Len(service_alerts[n].affected_route_ids) :
                               service_alerts[n].affected_route_ids[k] = risk_args.route_id
                         \/ \E k \in 1..Len(service_alerts[n].affected_stop_ids) :
                               service_alerts[n].affected_stop_ids[k] = risk_args.stop_id })
                  + (IF \E n \in 1..Len(trip_updates) :
                           trip_updates[n].route_id = risk_args.route_id
                           /\ trip_updates[n].is_cancelled
                     THEN 150 ELSE 0)
                  + (IF /\ dep - risk_args.query_dt.secs > 0
                        /\ dep - risk_args.query_dt.secs <= 900
                        /\ \A n \in 1..Len(vehicle_positions) :
                              vehicle_positions[n].trip_id # risk_args.trip_id
                     THEN 80 ELSE 0)
                  + (IF dep >= 79200 THEN 50 ELSE 0)
                  + (IF Weekday(risk_args.query_dt.day) \in {5, 6} THEN 30 ELSE 0)
           sum == 1000 * (h.d - h.n) + adj * h.d
       IN /\ risk.risk_score * h.d = (IF sum > 1000 * h.d THEN 1000 * h.d ELSE sum)
          /\ 0 <= risk.risk_score /\ risk.risk_score <= 1000

\* C16 as amended: the returned risk is min(1.0, (1 - hist) + adjustment)
\* rounded to three decimals, that is the thousandth nearest to it; and it
\* lies within [0, 1].
C16_RiskIsRoundedCappedSum ==
    (risk # NoRisk /\ ~risk.is_cancelled) =>
       LET h == risk_args.historical_reliability
           dep == HmsToSeconds(risk_args.departure_time_str)
           adj == 100 * Cardinality({ n \in 1..Len(service_alerts) :
                         \/ \E k \in 1..Len(service_alerts[n].affected_route_ids) :
                               service_alerts[n].affected_route_ids[k] = risk_args.route_id
                         \/ \E k \in 1..Len(service_alerts[n].affected_stop_ids) :
                               service_alerts[n].affected_stop_ids[k] = risk_args.stop_id })
                  + (IF \E n \in 1..Len(trip_updates) :
                           trip_updates[n].route_id = risk_args.route_id
                           /\ trip_updates[n].is_cancelled
                     THEN 150 ELSE 0)
                  + (IF /\ dep - risk_args.query_dt.secs > 0
                        /\ dep - risk_args.query_dt.secs <= 900
                        /\ \A n \in 1..Len(vehicle_positions) :
                              vehicle_positions[n].trip_id # risk_args.trip_id
                     THEN 80 ELSE 0)
                  + (IF dep >= 79200 THEN 50 ELSE 0)
                  + (IF Weekday(risk_args.query_dt.day) \in {5, 6} THEN 30 ELSE 0)
           sum == 1000 * (h.d - h.n) + adj * h.d
           capped == IF sum > 1000 * h.d THEN 1000 * h.d ELSE sum
       IN /\ 2 * Abs(risk.risk_score * h.d - capped) <= h.d
          /\ 0 <= risk.risk_score /\ risk.risk_score <= 1000

\* A Saturday-night call with every adjustment at work and the worst
\* reliability, so that the cap applies.
C16_Witness ==
    /\ risk # NoRisk
    /\ ~risk.is_cancelled
    /\ risk_args.historical_reliability = Rat(0, 1)
    /\ Len(risk.modifiers) = 6
    /\ risk.risk_score = 1000

(***************************************************************************)
(* Properties of GET /routes                                               *)
(***************************************************************************)

\* C13: a request answered from the result cache does not call find_routes
\* and leaves the cached leg lists as they are; every leg of its response
\* is the cached leg plus a risk, and the risk of a trip leg reflects the
\* live state of this very moment: it is marked cancelled exactly when
\* trip_updates now hold the trip as cancelled, and otherwise it has one
\* alert modifier for every alert that now matches its route or stop and a
\* cancellation modifier exactly when its route now has a cancelled trip.
C13_CachedResponseScoredFresh ==
    [][ \A req \in ScoringRequests :
          GetRoutesCached(req) =>
            LET cached == routes_cache[RoutesCacheKey(req.origin, req.destination,
                                                      req.departure_dt)].routes
            IN /\ routes_cache' = routes_cache
               /\ routingVars' = routingVars
               /\ response'.from_cache
               /\ Len(response'.scored) = Len(cached)
               /\ \A r \in 1..Len(cached) :
                     /\ Len(response'.scored[r].legs) = Len(cached[r])
                     /\ \A l \in 1..Len(cached[r]) :
                           LET leg == response'.scored[r].legs[l]
                           IN /\ "risk" \notin DOMAIN cached[r][l]
                              /\ [k \in DOMAIN cached[r][l] |-> leg[k]] = cached[r][l]
                              /\ leg.kind = "trip" =>
                                   /\ leg.risk.is_cancelled
                                        <=> \E n \in 1..Len(trip_updates) :
                                               /\ trip_updates[n].trip_id = leg.trip_id
                                               /\ trip_updates[n].is_cancelled
                                   /\ ~leg.risk.is_cancelled =>
                                        /\ Cardinality({ m \in 1..Len(leg.risk.modifiers) :
                                               leg.risk.modifiers[m].kind = "Service alert" })
                                           = Cardinality({ n \in 1..Len(service_alerts) :
                                               \/ \E k \in 1..Len(service_alerts[n].affected_route_ids) :
                                                     service_alerts[n].affected_route_ids[k] = leg.route_id
                                               \/ \E k \in 1..Len(service_alerts[n].affected_stop_ids) :
                                                     service_alerts[n].affected_stop_ids[k] = leg.from_stop_id })
                                        /\ (\E m \in 1..Len(leg.risk.modifiers) :
                                              leg.risk.modifiers[m].kind
                                                 = "earlier cancellation(s) on route")
                                           <=> \E n \in 1..Len(trip_updates) :
                                                  /\ trip_updates[n].route_id = leg.route_id
                                                  /\ trip_updates[n].is_cancelled ]_vars

\* A response served from the cache after two polls: its first leg is
\* marked cancelled, while the cache entry still holds the bare legs.
C13_Witness ==
    /\ response.from_cache
    /\ response.status = 200
    /\ rt_runs = 2
    /\ rt_pc = "idle"
    /\ response.scored[1].legs[1].risk.is_cancelled
    /\ \E k \in DOMAIN routes_cache : "risk" \notin DOMAIN routes_cache[k].routes[1][1]

\* C14: a request is answered from the cache only while its entry is at
\* most ROUTES_CACHE_TTL old; the lookup of an older entry removes it and
\* the request goes on to call find_routes.
C14_ExpiredEntryNotServed ==
    [][ \A req \in RouteRequests :
          LET key == RoutesCacheKey(req.origin, req.destination, req.departure_dt)
          IN /\ GetRoutesCached(req) =>
                  DtSeconds(Now) - DtSeconds(routes_cache[key].cached_at) <= ROUTES_CACHE_TTL
             /\ (/\ key \in DOMAIN routes_cache
                 /\ DtSeconds(Now) - DtSeconds(routes_cache[key].cached_at) > ROUTES_CACHE_TTL
                 /\ GetRoutesCompute(req))
                  => (key \notin DOMAIN routes_cache' /\ pc' # "idle" /\ request' = req) ]_vars

\* On the second day a request has found the entry of the first day
\* expired: the entry is gone and find_routes is at work again.
C14_Witness ==
    /\ clock = 3
    /\ response.status = 200
    /\ pc = "main"
    /\ request.destination = "C"
    /\ routes_cache = << >>

(***************************************************************************)
(* Properties of the built graph                                           *)
(***************************************************************************)

\* C17: the graph build_graph has produced holds at most one trip edge per
\* (from_stop, to_stop, route_id); the travel_seconds of a trip edge is not
\* negative and is the least max(0, arrival(b) - departure(a)) over the
\* consecutive stop pairs (a, b) of the trips of the route between the two
\* stops; and every such pair has its edge.
C17_OneFastestTripEdge ==
    graph.id # 0 =>
       /\ \A e1, e2 \in { e \in graph.edges : e.kind = "trip" } :
             (e1.u = e2.u /\ e1.v = e2.v /\ e1.route_id = e2.route_id) => e1 = e2
       /\ \A e \in { x \in graph.edges : x.kind = "trip" } :
             LET times == { Max(0, HmsToSeconds(t.st[i + 1].arrival_time)
                                     - HmsToSeconds(t.st[i].departure_time))
                              : << t, i >> \in
                                   { p \in db.trips \X (1..3) :
                                        /\ p[1].route_id = e.route_id
                                        /\ p[2] < Len(p[1].st)
                                        /\ p[1].st[p[2]].stop_id = e.u
                                        /\ p[1].st[p[2] + 1].stop_id = e.v } }
             IN /\ e.travel_seconds >= 0
                /\ e.travel_seconds \in times
                /\ \A x \in times : e.travel_seconds <= x
       /\ \A t \in db.trips : \A i \in 1..(Len(t.st) - 1) :
             \E e \in graph.edges :
                /\ e.kind = "trip" /\ e.route_id = t.route_id
                /\ e.u = t.st[i].stop_id /\ e.v = t.st[i + 1].stop_id

\* A built graph whose edge from A to C of route R1 had three candidates:
\* 25 minutes by T3, 20 minutes by T6 and a negative difference by T7.
C17_Witness ==
    /\ graph.id # 0
    /\ { t.trip_id : t \in db.trips } = {"T3", "T6", "T7"}
    /\ \E e \in graph.edges :
          e.kind = "trip" /\ e.u = "A" /\ e.v = "C" /\ e.travel_seconds = 0

\* C18: the walk edges of the graph build_graph has produced are the
\* ordered pairs of distinct stops whose haversine distance is at most
\* MAX_WALK_METRES, the edge set of the brute-force reference: neither the
\* latitude band nor the longitude prefilter has dropped such a pair.
C18_BisectMatchesBruteForce ==
    graph.id # 0 =>
       { << e.u, e.v >> : e \in { x \in graph.edges : x.kind = "walk" } }
          = BruteForceWalkPairs(db.stops)

(***************************************************************************)
(* Properties of the reliability seed                                      *)
(***************************************************************************)

\* C19: seed_from_static is idempotent: a call that follows another with
\* the same timetable, the same current date and the same window_days
\* returns the count the previous call
\* returned, creates no record and leaves every record's counters as they
\* were.
C19_SeedIdempotent ==
    last_seed.repeats =>
       /\ last_seed.raised = ""
       /\ last_seed.written = last_seed.prev_written
       /\ last_seed.unchanged

\* A repeated call over a timetable in which two departures share a record:
\* it has written two or more records, one of them with two scheduled
\* departures.
C19_Witness ==
    /\ last_seed.repeats
    /\ last_seed.written >= 2
    /\ \E k \in DOMAIN records : records[k].scheduled_departures >= 2

\* C20: with an empty trips table seed_from_static raises its no-trips
\* error, which trigger_reliability_seed answers with 409 Conflict, and no
\* reliability record is created or changed.
C20_EmptyTimetableConflict ==
    (last_seed.called /\ last_seed.trips = {}) =>
       /\ last_seed.raised = "RuntimeError"
       /\ last_seed.status = 409
       /\ last_seed.written = 0
       /\ last_seed.unchanged

\* The seed endpoint has been called with no trip in the timetable.
C20_Witness ==
    /\ last_seed.called
    /\ last_seed.trips = {}
    /\ last_seed.status = 409

(***************************************************************************)
(* Properties of find_routes inside GET /routes                            *)
(***************************************************************************)

Exhausted(nb) == nb = NoneSec \/ nb > MAX_SECONDS

\* The seconds a pointer can still move before the path is skipped.
Remaining(nb) == IF Exhausted(nb) THEN 0 ELSE MAX_SECONDS + 1 - nb

RECURSIVE SumRemaining(_, _)
SumRemaining(pointers, k) ==
    IF k > Len(pointers) THEN 0 ELSE Remaining(pointers[k]) + SumRemaining(pointers, k + 1)

FillVariant ==
    LET n == Len(candidate_paths)
    IN (2 * n + 3) * SumRemaining(path_not_before, 1)
         + (IF any_active THEN 2 * (n + 1) ELSE 0)
         + (n + 1 - fill_i)

\* C22: the gap-fill loop always stops: every iteration lowers FillVariant,
\* a pointer only moves to a later second or to exhaustion, and the loop is
\* left only with max_routes routes or with every path exhausted.
C22_FillTerminates ==
    [][ pc = "fill" =>
          /\ FillVariant >= 0
          /\ pc' = "fill" => FillVariant' < FillVariant
          /\ \A k \in 1..Len(path_not_before) :
                 path_not_before'[k] # path_not_before[k] =>
                    /\ k = fill_i /\ ~Exhausted(path_not_before[k])
                    /\ \/ path_not_before'[k] = NoneSec
                       \/ path_not_before'[k] > path_not_before[k]
          /\ (fill_i' = fill_i + 1 /\ ~Exhausted(path_not_before[fill_i]))
                 => path_not_before'[fill_i] # path_not_before[fill_i]
          /\ pc' = "done" =>
                 \/ Len(routes) >= request.max_routes
                 \/ \A k \in 1..Len(path_not_before) : Exhausted(path_not_before[k]) ]_vars

\* The fill has re-scheduled a path at least twice, ending past 23:59:59,
\* and is about to end with fewer than max_routes routes.
C22_Witness ==
    /\ pc = "fill" /\ fill_i > Len(candidate_paths) /\ ~any_active
    /\ Len(routes) >= 3 /\ Len(routes) < request.max_routes
    /\ \E k \in 1..Len(path_not_before) : path_not_before[k] > MAX_SECONDS

(***************************************************************************)
(* C23.  _find_trip_legs binds a segment to the earliest-departing trip of *)
(* the route and the service day that leaves the segment's first stop at   *)
(* or after not_before_sec and calls at its last stop with a greater       *)
(* stop_sequence.  It returns None exactly when there is no such trip or   *)
(* the trip bound does not call at one of the segment's stops.  A trip_id  *)
(* taken from the memo cache is one the query itself can return.  This is  *)
(* stated for every call that can be made in the current state, with the   *)
(* memo cache as find_routes has filled it.                                *)
(***************************************************************************)
\* The departures (in seconds) at which trip t serves the query.
ServingDepartures(t, first_stop, last_stop, not_before_sec) ==
    { HmsToSeconds(t.st[k].departure_time) :
        k \in { i \in 1..Len(t.st) :
                  /\ t.st[i].stop_id = first_stop
                  /\ HmsToSeconds(t.st[i].departure_time) >= not_before_sec
                  /\ \E l \in (i + 1)..Len(t.st) : t.st[l].stop_id = last_stop } }

\* The trips of the route and the day that serve the query.
ServingTrips(route_id, first_stop, last_stop, service_date, not_before_sec) ==
    { t \in db.trips : /\ t.route_id = route_id /\ t.service_id = service_date
                       /\ ServingDepartures(t, first_stop, last_stop, not_before_sec) # {} }

\* The segments and the clock values the calls are made with.
SegmentInputs ==
    { <<"A", "B">>, <<"A", "C">>, <<"B", "C">>, <<"C", "B">>, <<"A", "B", "C">>,
      <<"A", "C", "B">>, <<"A", "D", "C">> }
NotBeforeInputs ==
    { 0, 8 * 3600, 8 * 3600 + 1 } \cup { key[5] : key \in DOMAIN qcache.trip_select }

\* C23: for every segment and not-before time, the trip chosen is one that
\* serves the segment on the service day, leaves at or after the bound, and
\* no serving trip leaves earlier at or after the bound.
C23_EarliestTripBound ==
    \A route_id \in RouteIds, stops \in SegmentInputs, nb \in NotBeforeInputs, first \in BOOLEAN :
        LET key == << route_id, stops[1], Last(stops), Day1, nb >>
            serving == ServingTrips(route_id, stops[1], Last(stops), Day1, nb)
            dep(t) == ServingDepartures(t, stops[1], Last(stops), nb)
            bound == LookupTrip(db, key, qcache, first).trip_id
            r == FindTripLegs(db, route_id, stops, nb, Day1, qcache, first)
        IN /\ bound = None <=> serving = {}
           /\ bound # None =>
                 \E t \in serving :
                     /\ t.trip_id = bound
                     /\ \E d \in dep(t) : \A u \in serving : \A e \in dep(u) : d <= e
           /\ ~r.ok <=> \/ serving = {}
                        \/ \E k \in 1..Len(stops) :
                              \A t \in db.trips : t.trip_id = bound =>
                                  \A i \in 1..Len(t.st) : t.st[i].stop_id # stops[k]
           /\ r.ok => /\ Len(r.legs) = Len(stops) - 1
                      /\ \A k \in 1..Len(r.legs) : r.legs[k].trip_id = bound
           /\ \E f \in BOOLEAN :
                 bound = TripSelect(db, route_id, stops[1], Last(stops), Day1, nb, f)

\* find_routes has memoized a trip for a segment from A to C that two trips
\* serve at the same earliest departure, and a miss for a later clock value.
C23_Witness ==
    /\ pc = "fill"
    /\ \E key \in DOMAIN qcache.trip_select :
          /\ qcache.trip_select[key] # None
          /\ Cardinality(ServingTrips(key[1], key[2], key[3], key[4], key[5])) >= 2
          /\ TripSelect(db, key[1], key[2], key[3], key[4], key[5], TRUE)
                # TripSelect(db, key[1], key[2], key[3], key[4], key[5], FALSE)
    /\ \E key \in DOMAIN qcache.trip_select : qcache.trip_select[key] = None

(***************************************************************************)
(* C24.  In every leg list _schedule_path returns, a trip segment that     *)
(* follows an earlier trip segment departs no earlier than the last        *)
(* arrival of that segment plus MIN_TRANSFER_MINUTES * 60 plus the         *)
(* walk_seconds of the walk legs between the two, and the first trip       *)
(* segment departs no earlier than the time asked for plus the             *)
(* walk_seconds of the walk legs before it.  This is stated for every      *)
(* call find_routes can make next: on a path the generator may yield, at   *)
(* the requested time, and on the path the fill has reached, at its        *)
(* pointer.                                                                *)
(***************************************************************************)
\* Does leg k begin a trip segment?
SegmentStart(legs, k) ==
    /\ legs[k].kind = "trip"
    /\ k = 1 \/ legs[k - 1].kind = "walk" \/ legs[k - 1].route_id # legs[k].route_id

\* The walk_seconds of the legs i..j.
RECURSIVE WalkSecondsBetween(_, _, _)
WalkSecondsBetween(legs, i, j) ==
    IF i > j THEN 0 ELSE legs[i].walk_seconds + WalkSecondsBetween(legs, i + 1, j)

\* The last trip leg before leg k, 0 if there is none.
PreviousTripLeg(legs, k) ==
    LET before == { j \in 1..(k - 1) : legs[j].kind = "trip" }
    IN IF before = {} THEN 0 ELSE CHOOSE j \in before : \A x \in before : x <= j

BufferKept(legs, asked_sec) ==
    \A k \in 1..Len(legs) :
        SegmentStart(legs, k) =>
            LET j == PreviousTripLeg(legs, k)
            IN IF j = 0
               THEN HmsToSeconds(legs[k].departure_time)
                        >= asked_sec + WalkSecondsBetween(legs, 1, k - 1)
               ELSE HmsToSeconds(legs[k].departure_time)
                        >= HmsToSeconds(legs[j].arrival_time) + MIN_TRANSFER_MINUTES * 60
                             + WalkSecondsBetween(legs, j + 1, k - 1)

\* C24: in every route, a trip leg that follows another trip leg leaves no
\* earlier than that leg's arrival plus the transfer buffer plus the walks
\* between them.
C24_TransferBufferKept ==
    /\ pc = "main" =>
          \A node_path \in NextPaths(G, raw_remaining), orc \in Oracles :
              LET r == SchedulePath(db, G, node_path, request.departure_dt, qcache, orc)
              IN r.ok => BufferKept(r.legs, HmsToSeconds(request.departure_dt.time))
    /\ (pc = "fill" /\ fill_i <= Len(candidate_paths) /\ ~Exhausted(path_not_before[fill_i])) =>
          \A orc \in Oracles :
              LET nb == path_not_before[fill_i]
                  r == SchedulePath(db, G, candidate_paths[fill_i],
                                    [date |-> request.departure_dt.date, time |-> SecondsToHms(nb)],
                                    qcache, orc)
              IN r.ok => BufferKept(r.legs, nb)
    /\ \A k \in 1..Len(routes) :
          BufferKept(routes[k], HmsToSeconds(request.departure_dt.time))

\* A route has been returned that rides R1 to C, walks to D and boards there
\* the second trip of R2, the first leaving D before the walker arrives.
C24_Witness ==
    \E k \in 1..Len(routes) :
        \E w, x \in 1..Len(routes[k]) :
            /\ routes[k][w].kind = "walk" /\ x = w + 1 /\ w > 1
            /\ routes[k][w - 1].kind = "trip"
            /\ routes[k][x].kind = "trip" /\ routes[k][x].trip_id = "Z1"
            /\ \E t \in db.trips : t.trip_id = "T4"

(***************************************************************************)
(* C25.  Where several routes tie at the minimum weight on the first stop  *)
(* pair of a segment, _pick_longest_route returns one of them whose run of *)
(* consecutive stop pairs along the node path is at least as long as that  *)
(* of every other tied route, and the segment _schedule_path builds is     *)
(* exactly that run: all its legs ride one trip of the route, and the leg  *)
(* after it, if any, is a walk or rides another route.  This is stated for *)
(* every path the generator may yield next and every iteration order.      *)
(***************************************************************************)
\* The routes whose trip edge from node_path[i] onward has the minimum weight.
TiedRoutes(g, node_path, i) ==
    LET edges == EdgeData(g, node_path[i], node_path[i + 1])
    IN { e.route_id : e \in { x \in edges : x.kind = "trip" /\ \A y \in edges : x.weight <= y.weight } }

SegmentsAreLongestRuns(g, node_path, legs) ==
    /\ Len(legs) = Len(node_path) - 1
    /\ \A k \in 1..Len(legs) :
          SegmentStart(legs, k) =>
              LET n == RunLength(g, node_path, k, legs[k].route_id)
              IN /\ legs[k].route_id \in TiedRoutes(g, node_path, k)
                 /\ \A c \in TiedRoutes(g, node_path, k) : RunLength(g, node_path, k, c) <= n
                 /\ n >= 1
                 /\ \A x \in k..(k + n - 1) :
                       /\ legs[x].kind = "trip"
                       /\ legs[x].trip_id = legs[k].trip_id
                       /\ legs[x].from_stop_id = node_path[x]
                       /\ legs[x].to_stop_id = node_path[x + 1]
                 /\ k + n <= Len(legs) =>
                       legs[k + n].kind = "walk" \/ legs[k + n].route_id # legs[k].route_id

\* C25: among schedules of one node path that tie on arrival, the route
\* kept is built from the longest same-route runs.
C25_LongestRunPicked ==
    /\ pc = "main" =>
          \A node_path \in NextPaths(G, raw_remaining), orc \in Oracles :
              /\ \A i \in 1..(Len(node_path) - 1) :
                    TiedRoutes(G, node_path, i) # {} =>
                        LET picked == PickLongestRoute(G, node_path, i, orc.routes)
                        IN /\ picked \in TiedRoutes(G, node_path, i)
                           /\ \A c \in TiedRoutes(G, node_path, i) :
                                 RunLength(G, node_path, i, c) <= RunLength(G, node_path, i, picked)
              /\ LET r == SchedulePath(db, G, node_path, request.departure_dt, qcache, orc)
                 IN r.ok => SegmentsAreLongestRuns(G, node_path, r.legs)
    /\ (pc = "fill" /\ fill_i <= Len(candidate_paths) /\ ~Exhausted(path_not_before[fill_i])) =>
          \A orc \in Oracles :
              LET r == SchedulePath(db, G, candidate_paths[fill_i],
                                    [date |-> request.departure_dt.date,
                                     time |-> SecondsToHms(path_not_before[fill_i])],
                                    qcache, orc)
              IN r.ok => SegmentsAreLongestRuns(G, candidate_paths[fill_i], r.legs)
    /\ \A k \in 1..Len(candidate_paths) :
          SegmentsAreLongestRuns(G, candidate_paths[k], routes[k])

\* R1 and R2 tie from A to B, R2 ends at B, and the route returned from A
\* to C rides one trip of R1 over both stop pairs.
C25_Witness ==
    /\ pc = "done" /\ Len(routes) >= 1
    /\ candidate_paths[1] = <<"A", "B", "C">>
    /\ TiedRoutes(G, candidate_paths[1], 1) = {"R1", "R2"}
    /\ RunLength(G, candidate_paths[1], 1, "R2") = 1
    /\ routes[1][1].route_id = "R1" /\ routes[1][2].trip_id = routes[1][1].trip_id

(***************************************************************************)
(* C26.  record_observed_departure is an upsert on (route_id, stop_id,     *)
(* time bucket): after a call whose commit succeeds there is a record      *)
(* under the key, its scheduled_departures is one higher than before (1    *)
(* for a new key), a cancellation has raised cancellation_count by one and *)
(* any other observation has raised observed_departures by one and         *)
(* total_delay_seconds by delay_seconds, and no other record has changed.  *)
(* This is stated for every call on the table as it stands.                *)
(***************************************************************************)
\* The counters of the record under key k, all 0 if there is none.
CountersBefore(recs, k) == IF k \in DOMAIN recs THEN recs[k] ELSE Record(0, 0, 0, 0)

\* C26: record_observed_departure is an upsert: afterwards one record holds
\* the key, scheduled_departures is one higher (1 for a new key), and either
\* cancellation_count is one higher or observed_departures is one higher and
\* total_delay_seconds higher by the delay; other keys are unchanged.
C26_ObservedDepartureUpserts ==
    \A route_id \in RouteIds, stop_id \in StopIds, at \in 1..Len(Instants),
       delay_seconds \in {-240, 0, 180}, was_cancelled \in BOOLEAN :
        LET k == << route_id, stop_id, ClassifyTimeBucket(Instants[at]) >>
            old == CountersBefore(records, k)
            r == RecordObservedDeparture(records, route_id, stop_id, Instants[at],
                                         delay_seconds, was_cancelled, TRUE)
        IN /\ r.raised = ""
           /\ DOMAIN r.records = DOMAIN records \cup { k }
           /\ \A x \in DOMAIN records : x # k => r.records[x] = records[x]
           /\ r.records[k].scheduled_departures = old.scheduled_departures + 1
           /\ IF was_cancelled
              THEN /\ r.records[k].cancellation_count = old.cancellation_count + 1
                   /\ r.records[k].observed_departures = old.observed_departures
                   /\ r.records[k].total_delay_seconds = old.total_delay_seconds
              ELSE /\ r.records[k].cancellation_count = old.cancellation_count
                   /\ r.records[k].observed_departures = old.observed_departures + 1
                   /\ r.records[k].total_delay_seconds = old.total_delay_seconds + delay_seconds

(***************************************************************************)
(* C27.  In every route find_routes returns the legs are chronologically   *)
(* coherent: no trip leg arrives before it departs, and no trip leg        *)
(* departs before the trip leg before it in the route has arrived.  The    *)
(* timetables hold a trip that calls at a stop twice and a trip that calls *)
(* at the stops of a segment in another order than the node path.          *)
(***************************************************************************)
Coherent(legs) ==
    \A k \in 1..Len(legs) :
        legs[k].kind = "trip" =>
            /\ HmsToSeconds(legs[k].arrival_time) >= HmsToSeconds(legs[k].departure_time)
            /\ PreviousTripLeg(legs, k) # 0 =>
                   HmsToSeconds(legs[k].departure_time)
                       >= HmsToSeconds(legs[PreviousTripLeg(legs, k)].arrival_time)

\* C27: in every route returned, each trip leg arrives no earlier than it
\* leaves and leaves no earlier than the previous trip leg arrived.
C27_LegsCoherent == \A k \in 1..Len(routes) : Coherent(routes[k])

(***************************************************************************)
(* C28.  Every route in a response of GET /routes has its first trip leg   *)
(* on the requested date, departing at or after the requested time, also   *)
(* when the response is served from the result cache, whose key drops the  *)
(* seconds of the requested time.                                          *)
(***************************************************************************)
DepartsAtOrAfter(legs, departure_dt) ==
    /\ TripLegsOf(legs) # << >>
    /\ TripLegsOf(legs)[1].service_id = departure_dt.date
    /\ HmsToSeconds(TripLegsOf(legs)[1].departure_time) >= HmsToSeconds(departure_dt.time)

\* C28: every route answered by get_routes, computed or cached, has its
\* first trip leg leaving at or after the requested departure time.
C28_DepartsAtOrAfterRequest ==
    [][ \A req \in RouteRequests :
          (GetRoutesCached(req) \/ (request = req /\ GetRoutesFinish)) =>
              \A k \in 1..Len(response'.routes) :
                  DepartsAtOrAfter(response'.routes[k], req.departure_dt) ]_vars

(***************************************************************************)
(* C29.  A build_graph call that fails before completion leaves the graph  *)
(* cache as it was: builder._graph is the snapshot there was (or still     *)
(* None, so that get_graph still raises) and _last_built_at is unchanged.  *)
(* The two change only in the step that ends a build whose local graph has *)
(* received the stop nodes, the trip edges and the walk edges of the       *)
(* timetable, and then both change: to that graph and to the time of the   *)
(* step.                                                                   *)
(***************************************************************************)
C29_FailedBuildKeepsCache ==
    [][ /\ (build_pc \in {"stops", "trips", "walks"} /\ build_pc' = "idle") =>
              /\ graph' = graph
              /\ last_built_at' = last_built_at
        /\ (graph' # graph \/ last_built_at' # last_built_at) =>
              /\ build_pc = "swap" /\ build_pc' = "idle"
              /\ graph' = BuiltGraph(db, build_G.id)
              /\ graph' = build_G
              /\ last_built_at' = Now ]_vars

\* A build started after the first tick has failed: the graph built at
\* startup and its timestamp are still there.  A find_routes call is
\* reading that graph.
C29_Witness ==
    /\ build_pc = "idle" /\ builds = 2 /\ clock > 1
    /\ graph = BuiltGraph(db, 1) /\ graph # NoGraph
    /\ last_built_at = [day |-> 1, secs |-> 0]
    /\ pc = "main" /\ G = graph

(***************************************************************************)
(* C30.  observe_departures adds a trip to _recorded_today only in a run   *)
(* that wrote at least one reliability record for it.  A trip of           *)
(* trip_updates for which nothing was written stays out of the set, and a  *)
(* later run of the same day considers it again: once all the records its  *)
(* state asks for are written, it is in the set.  The set loses members    *)
(* only in the first run on a new calendar date, which keeps none of the   *)
(* old ones; no other step touches the set or its date.                    *)
(***************************************************************************)
\* The trips the step has written a record for.
WrittenInStep(log_before, log_after) ==
    { k[1] : k \in { x \in DOMAIN log_after :
                        x \notin DOMAIN log_before \/ log_after[x] > log_before[x] } }

\* C30: a trip enters recorded_today only in the poll step that wrote an
\* observation for it, the set is emptied exactly when the date changes,
\* and in every other step the set and its date stay.
C30_RecordedOnlyWhenWritten ==
    [][ IF rt_pc = "vehicle_positions" /\ rt_pc' = "idle"
        THEN LET today == Calendar[Now.day]
                 kept == IF recorded_date = today THEN recorded_today ELSE {}
                 written == WrittenInStep(obs_log, obs_log')
             IN /\ recorded_date' = today
                /\ kept \subseteq recorded_today'
                /\ (recorded_today' \ kept) \subseteq written
                /\ \A n \in 1..Len(trip_updates) :
                      LET t == trip_updates[n].trip_id
                          calls == RecordCalls(trip_updates[n], StopRows(db, t, FALSE), Now)
                      IN /\ (t \notin kept /\ t \notin written) => t \notin recorded_today'
                         /\ ( /\ t \notin kept /\ calls # << >>
                              /\ \A c \in 1..Len(calls) :
                                    LET k == << t, calls[c].stop_id, Now.day >>
                                    IN /\ k \in DOMAIN obs_log'
                                       /\ k \notin DOMAIN obs_log \/ obs_log'[k] > obs_log[k] )
                             => t \in recorded_today'
        ELSE UNCHANGED << recorded_today, recorded_date >> ]_vars

\* On the first day a trip was written and recorded; the run of the second
\* day has emptied the set, and the trips trip_updates holds now, for which
\* nothing could be written, are unrecorded.
C30_Witness ==
    /\ rt_pc = "idle" /\ rt_runs = 2 /\ last_failure = NoFailure
    /\ recorded_date = Day2 /\ recorded_today = {}
    /\ trip_updates # << >>
    /\ \E k \in DOMAIN obs_log : k[3] = 1
    /\ \A k \in DOMAIN obs_log : k[3] # 2

====
